---- MODULE Spec2Model ----
(***************************************************************************)
(* A model of the four-player chess engine: the board with its            *)
(* incremental state (board.cc), the staged move picker (move_picker2.h), *)
(* the alpha-beta search, its iterative-deepening driver and the          *)
(* multithreaded entry point (player.cc).                                 *)
(***************************************************************************)
EXTENDS Integers, Sequences, FiniteSets, TLC

VARIABLES
  board,        \* the Board object a thread works on
  last_op,      \* name of the last Board operation applied
  null_depth,   \* MakeNullMove calls not yet undone
  picker,       \* a MovePicker2
  returned,     \* the moves GetNextMove2 has returned since InitMovePicker2
  picker_done,  \* GetNextMove2 has returned nullptr
  driver,       \* the locals of MakeMoveSingleThread and what it returned
  stack,        \* the Search invocations in progress, the innermost last
  ss,           \* the per-ply Stack array of the thread
  ret,          \* what the Search that returned last handed to its caller
  expired,      \* canceled_ is set or the deadline has passed
  num_nodes_,   \* nodes entered
  table_hits,   \* hits of the transposition table and the checkmate set
  buffer_id_,   \* move buffer partitions handed out (ThreadState)
  completed,    \* score, move and depth of the last iteration that completed
  main_pc,      \* where the thread that called MakeMove stands
  canceled_,    \* the player's cancel flag
  deadline_passed,  \* the clock has reached the deadline of the call
  num_threads,  \* threads of the call, thread 0 included
  threads,      \* per thread: where MakeMoveSingleThread and its Search stand
  joined,       \* helper threads MakeMove has joined
  hash_table_,  \* the slots of the player's transposition table
  a_mutexes_,   \* per mutex of the table's pool: the thread that holds it
  probes,       \* per thread: the table locals of its Search invocation
  history_heuristic,   \* the player's history table, by flat cell offset
  dummy_history,       \* the one PieceToHistory every ply's pointer is set to
  heuristic_mutexes_,  \* per mutex of the heuristic pool: the thread holding it
  mtx,                 \* the static mutex of GetNextMove2: the thread holding it
  history_threads      \* per thread: where its use of the history tables stands

boardVars == <<board, last_op, null_depth>>

pickerVars == <<picker, returned, picker_done>>

searchVars ==
  <<driver, stack, ss, ret, expired, num_nodes_, table_hits, buffer_id_, completed>>

tableVars == <<hash_table_, a_mutexes_, probes>>

historyVars ==
  <<history_heuristic, dummy_history, heuristic_mutexes_, mtx, history_threads>>

threadVars ==
  <<main_pc, canceled_, deadline_passed, num_threads, threads, joined, tableVars,
    historyVars>>

vars == <<board, last_op, null_depth, picker, returned, picker_done,
          driver, stack, ss, ret, expired, num_nodes_, table_hits, buffer_id_,
          completed, main_pc, canceled_, deadline_passed, num_threads, threads,
          joined, hash_table_, a_mutexes_, probes, history_heuristic,
          dummy_history, heuristic_mutexes_, mtx, history_threads>>

-----------------------------------------------------------------------------
(* Bounds of the model *)

\* longest move history explored
MaxMoves == 2

\* most null moves outstanding at once
MaxNull == 1

\* most operations applied to a board
MaxOps == 6

\* longest move list handed to the move picker
MaxCount == 3

\* scores the picker's ordering draws from: 0..MaxScore
MaxScore == 1

\* nodes a search enters before the deadline has passed at the latest
MaxNodes == 6

\* hits of the shared tables (transposition table, checkmate set) in a run
MaxTableHits == 1

\* max_depth of a search that starts without a principal variation
FreshMaxDepth == 2

\* largest `limit` handed to GetPseudoLegalMoves2 when its bound is examined
MaxLimit == 2

\* threads of a MakeMove call, thread 0 included
MaxThreads == 2

\* Search invocations a thread has in progress at once
MaxFrames == 2

\* nodes of thread 0's search that make calls
MaxThreadNodes == 2

-----------------------------------------------------------------------------
(* Colours, teams, pieces, locations *)

RED == 0
BLUE == 1
YELLOW == 2
GREEN == 3

Colors == {RED, BLUE, YELLOW, GREEN}

PieceTypes == {"PAWN", "KNIGHT", "BISHOP", "ROOK", "QUEEN", "KING"}

GetTeam(color) == IF color = RED \/ color = YELLOW THEN "RED_YELLOW" ELSE "BLUE_GREEN"

OtherTeam(team) == IF team = "RED_YELLOW" THEN "BLUE_GREEN" ELSE "RED_YELLOW"

GetNextPlayer(color) ==
  CASE color = RED -> BLUE
    [] color = BLUE -> YELLOW
    [] color = YELLOW -> GREEN
    [] OTHER -> RED

GetPreviousPlayer(color) ==
  CASE color = RED -> GREEN
    [] color = BLUE -> RED
    [] color = YELLOW -> BLUE
    [] OTHER -> YELLOW

\* (color + 2) & 0x3
TeammateColor(color) == (color + 2) % 4

kNoPiece == [color |-> -1, type |-> "NO_PIECE"]

Piece(color, type) == [color |-> color, type |-> type]

Present(piece) == piece.type # "NO_PIECE"

Missing(piece) == piece.type = "NO_PIECE"

kNoLocation == <<-1, -1>>

LocPresent(loc) == loc # kNoLocation

Rows == 0..13

\* the 14x14 cross: the four 3x3 corners are no squares
IsLegalLocation(row, col) ==
  /\ row \in Rows
  /\ col \in Rows
  /\ ~((row < 3 \/ row > 10) /\ (col < 3 \/ col > 10))

CastlingRights(kingside, queenside) ==
  [present |-> TRUE, kingside |-> kingside, queenside |-> queenside]

kMissingRights == [present |-> FALSE, kingside |-> FALSE, queenside |-> FALSE]

PieceEvaluations(type) ==
  CASE type = "PAWN" -> 50
    [] type = "KNIGHT" -> 300
    [] type = "BISHOP" -> 400
    [] type = "ROOK" -> 500
    [] type = "QUEEN" -> 1000
    [] type = "KING" -> 10000
    [] OTHER -> 0

PlacedPiece(loc, piece) == [loc |-> loc, piece |-> piece]

\* Move(from, to, capture, initial_castling_rights, castling_rights) and
\* Move(from, to, capture, en_passant_location, en_passant_capture, promotion)
MoveOf(from, to, capture, initial_rights, rights, enp_loc) ==
  [from |-> from, to |-> to, standard_capture |-> capture,
   initial_castling_rights |-> initial_rights, castling_rights |-> rights,
   en_passant_location |-> enp_loc, en_passant_capture |-> kNoPiece,
   promotion_piece_type |-> "NO_PIECE"]

SimpleMoveOf(from, to, capture) ==
  MoveOf(from, to, capture, kMissingRights, kMissingRights, kNoLocation)

kNoMove == SimpleMoveOf(kNoLocation, kNoLocation, kNoPiece)

-----------------------------------------------------------------------------
(* Sequence helpers *)

RECURSIVE Flatten(_)
Flatten(seqs) ==
  IF seqs = <<>> THEN <<>> ELSE Head(seqs) \o Flatten(Tail(seqs))

SeqToSet(s) == {s[i] : i \in 1..Len(s)}

\* vector::erase of the first element at location loc (find_if + erase)
EraseAt(list, loc) ==
  LET hits == {i \in 1..Len(list) : list[i].loc = loc}
  IN IF hits = {} THEN list
     ELSE LET k == CHOOSE i \in hits : \A j \in hits : i <= j
          IN SubSeq(list, 1, k - 1) \o SubSeq(list, k + 1, Len(list))

HasAt(list, loc) == \E i \in 1..Len(list) : list[i].loc = loc

-----------------------------------------------------------------------------
(* Zobrist hash: the key is the XOR of the random words of the pieces on    *)
(* the board and of the turn.  XOR of distinct random words is modelled as  *)
(* the symmetric difference of the set of words that are currently in.      *)

PieceHash(piece, loc) == <<"piece", piece.color, piece.type, loc[1], loc[2]>>

TurnHash(color) == <<"turn", color>>

Xor(key, word) == IF word \in key THEN key \ {word} ELSE key \cup {word}

UpdatePieceHash(b, piece, loc) ==
  [b EXCEPT !.hash_key_ = Xor(@, PieceHash(piece, loc))]

UpdateTurnHash(b, color) ==
  [b EXCEPT !.hash_key_ = Xor(@, TurnHash(color))]

GetPiece(b, loc) == b.location_to_piece_[loc]

-----------------------------------------------------------------------------
(* Board construction *)

\* the comparator of the constructor's std::sort of each piece list
PieceMoveOrderTypes == <<"KING", "PAWN", "KNIGHT", "BISHOP", "ROOK", "QUEEN">>

SortedPieces(placed, color) ==
  Flatten([k \in 1..Len(PieceMoveOrderTypes) |->
    SelectSeq(placed, LAMBDA pp : pp.piece.color = color
                                  /\ pp.piece.type = PieceMoveOrderTypes[k])])

RECURSIVE SumEval(_)
SumEval(list) ==
  IF list = <<>> THEN 0
  ELSE PieceEvaluations(Head(list).piece.type) + SumEval(Tail(list))

\* the key XORed with the word of every entry of a piece list: a word
\* that occurs an odd number of times in the list is toggled
XorPieces(key, list) ==
  LET word(i) == PieceHash(list[i].piece, list[i].loc)
      odd == { word(i) : i \in { j \in 1..Len(list) :
                 Cardinality({k \in 1..Len(list) : word(k) = word(j)}) % 2 = 1 } }
  IN (key \ odd) \cup (odd \ key)

\* Board::InitializeHash: every piece of every piece list, then the turn
InitializeHash(b) ==
  LET k0 == XorPieces(b.hash_key_, b.piece_list_[RED])
      k1 == XorPieces(k0, b.piece_list_[BLUE])
      k2 == XorPieces(k1, b.piece_list_[YELLOW])
      k3 == XorPieces(k2, b.piece_list_[GREEN])
  IN [b EXCEPT !.hash_key_ = Xor(k3, TurnHash(b.turn_))]

KingLocationOf(placed, color) ==
  LET ks == {i \in 1..Len(placed) : placed[i].piece = Piece(color, "KING")}
  IN IF ks = {} THEN kNoLocation
     ELSE placed[CHOOSE i \in ks : \A j \in ks : j <= i].loc

\* Board::Board(turn, location_to_piece, castling_rights)
BoardCtor(turn, placed, rights) ==
  LET lists == [c \in Colors |-> SortedPieces(placed, c)]
      evals == [c \in Colors |-> SumEval(lists[c])]
  IN InitializeHash(
       [turn_ |-> turn,
        location_to_piece_ |->
          [loc \in Rows \X Rows |->
            IF HasAt(placed, loc)
            THEN placed[CHOOSE i \in 1..Len(placed) : placed[i].loc = loc].piece
            ELSE kNoPiece],
        piece_list_ |-> lists,
        king_locations_ |-> [c \in Colors |-> KingLocationOf(placed, c)],
        castling_rights_ |-> rights,
        moves_ |-> <<>>,
        hash_key_ |-> {},
        piece_evaluation_ |-> evals[RED] + evals[YELLOW] - evals[BLUE] - evals[GREEN],
        player_piece_evaluations_ |-> evals,
        fatal_ |-> FALSE])

-----------------------------------------------------------------------------
(* Board::MakeMove and Board::UndoMove *)

\* a capture that leaves the king location of the captured colour alone
MakeMoveCaptureKeepsKing(b, to) ==
  LET capture == GetPiece(b, to)
      piece_eval == PieceEvaluations(capture.type)
      b1 == [b EXCEPT
               !.fatal_ = @ \/ ~HasAt(b.piece_list_[capture.color], to),
               !.piece_list_[capture.color] = EraseAt(@, to),
               !.location_to_piece_[to] = kNoPiece,
               !.piece_evaluation_ =
                  IF GetTeam(capture.color) = "RED_YELLOW"
                  THEN @ - piece_eval ELSE @ + piece_eval,
               !.player_piece_evaluations_[capture.color] = @ - piece_eval]
  IN UpdatePieceHash(b1, capture, to)

\* the capture branch of MakeMove: the piece standing on `to` leaves the board
MakeMoveCapture(b, to) ==
  LET capture == GetPiece(b, to)
      piece_eval == PieceEvaluations(capture.type)
      b1 == [b EXCEPT
               !.fatal_ = @ \/ ~HasAt(b.piece_list_[capture.color], to),
               !.piece_list_[capture.color] = EraseAt(@, to),
               !.location_to_piece_[to] = kNoPiece,
               !.king_locations_[capture.color] =
                  IF capture.type = "KING" THEN kNoLocation ELSE @,
               !.piece_evaluation_ =
                  IF GetTeam(capture.color) = "RED_YELLOW"
                  THEN @ - piece_eval ELSE @ + piece_eval,
               !.player_piece_evaluations_[capture.color] = @ - piece_eval]
  IN UpdatePieceHash(b1, capture, to)

\* the moving piece leaves `from`
MakeMoveRemove(b, from, piece) ==
  LET b1 == [b EXCEPT
               !.fatal_ = @ \/ ~HasAt(b.piece_list_[piece.color], from),
               !.piece_list_[piece.color] = EraseAt(@, from),
               !.location_to_piece_[from] = kNoPiece,
               !.castling_rights_[piece.color] =
                  IF piece.type = "KING" THEN CastlingRights(FALSE, FALSE) ELSE @,
               !.king_locations_[piece.color] =
                  IF piece.type = "KING" THEN kNoLocation ELSE @]
  IN UpdatePieceHash(b1, piece, from)

\* a placement that writes the grid and leaves the piece list alone
MakeMovePlaceGridOnly(b, to, piece) ==
  LET b1 == [b EXCEPT
               !.location_to_piece_[to] = piece,
               !.king_locations_[piece.color] =
                  IF piece.type = "KING" THEN to ELSE @]
  IN UpdatePieceHash(b1, piece, to)

\* the moving piece is set on `to`
MakeMovePlace(b, to, piece) ==
  LET b1 == [b EXCEPT
               !.location_to_piece_[to] = piece,
               !.piece_list_[piece.color] = Append(@, PlacedPiece(to, piece)),
               !.king_locations_[piece.color] =
                  IF piece.type = "KING" THEN to ELSE @]
  IN UpdatePieceHash(b1, piece, to)

MakeMove(b, move) ==
  LET piece == GetPiece(b, move.from)
      b1 == IF Present(GetPiece(b, move.to)) THEN MakeMoveCapture(b, move.to) ELSE b
      b2 == MakeMoveRemove(b1, move.from, piece)
      b3 == MakeMovePlace(b2, move.to, piece)
      b4 == UpdateTurnHash(UpdateTurnHash(b3, piece.color), (piece.color + 1) % 4)
  IN [b4 EXCEPT !.turn_ = GetNextPlayer(b.turn_),
                !.moves_ = Append(@, move)]

\* the piece on `to` goes back to `from`
UndoMoveBack(b, from, to) ==
  LET piece == GetPiece(b, to)
      b1 == [b EXCEPT
               !.piece_list_[piece.color] = EraseAt(@, to),
               !.location_to_piece_[to] = kNoPiece,
               !.castling_rights_[piece.color] =
                  IF piece.type = "KING" THEN CastlingRights(FALSE, FALSE) ELSE @,
               !.king_locations_[piece.color] =
                  IF piece.type = "KING" THEN kNoLocation ELSE @]
      b2 == UpdatePieceHash(b1, piece, to)
      b3 == [b2 EXCEPT
               !.location_to_piece_[from] = piece,
               !.piece_list_[piece.color] = Append(@, PlacedPiece(from, piece)),
               !.king_locations_[piece.color] =
                  IF piece.type = "KING" THEN from ELSE @]
  IN UpdatePieceHash(b3, piece, from)

\* a restore of the captured piece that leaves the material sums alone
UndoMoveCaptureNoEval(b, to, capture) ==
  LET b1 == [b EXCEPT
               !.location_to_piece_[to] = capture,
               !.piece_list_[capture.color] = Append(@, PlacedPiece(to, capture)),
               !.king_locations_[capture.color] =
                  IF capture.type = "KING" THEN to ELSE @]
  IN UpdatePieceHash(b1, capture, to)

\* a restore of the captured piece that adds its value to the team-signed
\* sum whatever its team
UndoMoveCaptureUnsigned(b, to, capture) ==
  LET piece_eval == PieceEvaluations(capture.type)
      b1 == [b EXCEPT
               !.location_to_piece_[to] = capture,
               !.piece_list_[capture.color] = Append(@, PlacedPiece(to, capture)),
               !.king_locations_[capture.color] =
                  IF capture.type = "KING" THEN to ELSE @,
               !.piece_evaluation_ = @ + piece_eval,
               !.player_piece_evaluations_[capture.color] = @ + piece_eval]
  IN UpdatePieceHash(b1, capture, to)

\* the captured piece is placed back on `to`
UndoMoveCapture(b, to, capture) ==
  LET piece_eval == PieceEvaluations(capture.type)
      sign == IF GetTeam(capture.color) = "RED_YELLOW" THEN 1 ELSE -1
      b1 == [b EXCEPT
               !.location_to_piece_[to] = capture,
               !.piece_list_[capture.color] = Append(@, PlacedPiece(to, capture)),
               !.king_locations_[capture.color] =
                  IF capture.type = "KING" THEN to ELSE @,
               !.piece_evaluation_ = @ + sign * piece_eval,
               !.player_piece_evaluations_[capture.color] = @ + piece_eval]
  IN UpdatePieceHash(b1, capture, to)

\* requires b.moves_ # <<>> (the assert at the top of UndoMove)
UndoMove(b) ==
  LET move == b.moves_[Len(b.moves_)]
      turn_before == GetPreviousPlayer(b.turn_)
      b1 == UndoMoveBack(b, move.from, move.to)
      b2 == IF Present(move.standard_capture)
            THEN UndoMoveCapture(b1, move.to, move.standard_capture) ELSE b1
      b3 == [b2 EXCEPT !.turn_ = turn_before,
                       !.moves_ = SubSeq(@, 1, Len(@) - 1)]
  IN UpdateTurnHash(UpdateTurnHash(b3, turn_before), (turn_before + 1) % 4)

\* Board::PieceEvaluation(): the condition of its assert
PieceEvaluationAssert(b) ==
  b.player_piece_evaluations_[RED] + b.player_piece_evaluations_[YELLOW]
    - b.player_piece_evaluations_[BLUE] - b.player_piece_evaluations_[GREEN]
  = b.piece_evaluation_

\* a null move that toggles only the word of the side that was to move
MakeNullMoveOneWord(b) ==
  [UpdateTurnHash(b, b.turn_) EXCEPT !.turn_ = GetNextPlayer(b.turn_)]

MakeNullMove(b) ==
  LET b1 == UpdateTurnHash(UpdateTurnHash(b, b.turn_), (b.turn_ + 1) % 4)
  IN [b1 EXCEPT !.turn_ = GetNextPlayer(b.turn_)]

UndoNullMove(b) ==
  LET t == GetPreviousPlayer(b.turn_)
      b1 == [b EXCEPT !.turn_ = t]
  IN UpdateTurnHash(UpdateTurnHash(b1, t), (t + 1) % 4)

-----------------------------------------------------------------------------
(* Pseudo-legal move generation *)

Enemy(piece, color) ==
  Present(piece) /\ piece.color # color /\ piece.color # TeammateColor(color)

\* kPawnDirections[color]: forward step, then the two capture steps
PawnForward(color) ==
  CASE color = RED -> <<-1, 0>>
    [] color = BLUE -> <<0, 1>>
    [] color = YELLOW -> <<1, 0>>
    [] OTHER -> <<0, -1>>

PawnCapture1(color) ==
  CASE color = RED -> <<-1, -1>>
    [] color = BLUE -> <<-1, 1>>
    [] color = YELLOW -> <<1, -1>>
    [] OTHER -> <<-1, -1>>

PawnCapture2(color) ==
  CASE color = RED -> <<-1, 1>>
    [] color = BLUE -> <<1, 1>>
    [] color = YELLOW -> <<1, 1>>
    [] OTHER -> <<1, -1>>

\* a pawn that never counts as standing on its starting line
PawnAlwaysMoved(color, row, col) == FALSE

\* kStartingRow / kStartingCol
PawnNotMoved(color, row, col) ==
  CASE color = RED -> row = 12
    [] color = YELLOW -> row = 1
    [] color = BLUE -> col = 1
    [] OTHER -> col = 12

PawnCaptureMove(b, from, color, delta) ==
  LET r == from[1] + delta[1]
      c == from[2] + delta[2]
  IN IF IsLegalLocation(r, c) /\ Enemy(GetPiece(b, <<r, c>>), color)
     THEN << SimpleMoveOf(from, <<r, c>>, GetPiece(b, <<r, c>>)) >>
     ELSE <<>>

GetPawnMovesDirect(b, from, color) ==
  LET fwd == PawnForward(color)
      is_forward_legal == IsLegalLocation(from[1] + fwd[1], from[2] + fwd[2])
      forward1 == IF is_forward_legal
                  THEN <<from[1] + fwd[1], from[2] + fwd[2]>> ELSE kNoLocation
      forward2 == <<from[1] + 2 * fwd[1], from[2] + 2 * fwd[2]>>
      forward_piece == IF is_forward_legal THEN GetPiece(b, forward1) ELSE kNoPiece
      advance ==
        IF Present(forward_piece) THEN <<>>
        ELSE << SimpleMoveOf(from, forward1, kNoPiece) >>
             \o (IF PawnNotMoved(color, from[1], from[2]) /\ Missing(GetPiece(b, forward2))
                 THEN << MoveOf(from, forward2, kNoPiece, kMissingRights, kMissingRights,
                                <<from[1] + fwd[1], from[2] + fwd[2]>>) >>
                 ELSE <<>>)
  IN advance \o PawnCaptureMove(b, from, color, PawnCapture1(color))
             \o PawnCaptureMove(b, from, color, PawnCapture2(color))

KnightDeltas ==
  << <<2, 1>>, <<2, -1>>, <<-2, 1>>, <<-2, -1>>,
     <<1, 2>>, <<1, -2>>, <<-1, 2>>, <<-1, -2>> >>

\* a single step that takes whatever stands on the destination
StepMoveOntoAny(b, from, color, delta) ==
  LET r == from[1] + delta[1]
      c == from[2] + delta[2]
  IN IF ~IsLegalLocation(r, c) THEN <<>>
     ELSE << SimpleMoveOf(from, <<r, c>>, GetPiece(b, <<r, c>>)) >>

\* a single-step destination: empty or an enemy piece
StepMove(b, from, color, delta) ==
  LET r == from[1] + delta[1]
      c == from[2] + delta[2]
  IN IF ~IsLegalLocation(r, c) THEN <<>>
     ELSE LET captured == GetPiece(b, <<r, c>>)
          IN IF Present(captured)
             THEN (IF Enemy(captured, color)
                   THEN << SimpleMoveOf(from, <<r, c>>, captured) >> ELSE <<>>)
             ELSE << SimpleMoveOf(from, <<r, c>>, kNoPiece) >>

GetKnightMovesDirect(b, from, color) ==
  Flatten([k \in 1..Len(KnightDeltas) |-> StepMove(b, from, color, KnightDeltas[k])])

\* one ray of a sliding piece, from square (r, c) on
RECURSIVE SlideMoves(_, _, _, _, _, _, _)
SlideMoves(b, from, color, r, c, dr, dc) ==
  IF ~IsLegalLocation(r, c) THEN <<>>
  ELSE LET captured == GetPiece(b, <<r, c>>)
       IN IF Present(captured)
          THEN (IF Enemy(captured, color)
                THEN << SimpleMoveOf(from, <<r, c>>, captured) >> ELSE <<>>)
          ELSE << SimpleMoveOf(from, <<r, c>>, kNoPiece) >>
               \o SlideMoves(b, from, color, r + dr, c + dc, dr, dc)

kRookDirections == << <<0, 1>>, <<0, -1>>, <<1, 0>>, <<-1, 0>> >>

kBishopDirections == << <<1, 1>>, <<1, -1>>, <<-1, 1>>, <<-1, -1>> >>

GetRookMovesDirect(b, from, color) ==
  Flatten([k \in 1..Len(kRookDirections) |->
    SlideMoves(b, from, color, from[1] + kRookDirections[k][1],
               from[2] + kRookDirections[k][2],
               kRookDirections[k][1], kRookDirections[k][2])])

GetBishopMovesDirect(b, from, color) ==
  Flatten([k \in 1..Len(kBishopDirections) |->
    SlideMoves(b, from, color, from[1] + kBishopDirections[k][1],
               from[2] + kBishopDirections[k][2],
               kBishopDirections[k][1], kBishopDirections[k][2])])

\* a diagonal king step carries the castling rights before and after
KingDiagonalMove(b, from, color, delta) ==
  LET r == from[1] + delta[1]
      c == from[2] + delta[2]
  IN IF ~IsLegalLocation(r, c) THEN <<>>
     ELSE LET captured == GetPiece(b, <<r, c>>)
          IN IF Missing(captured) \/ Enemy(captured, color)
             THEN << MoveOf(from, <<r, c>>, captured, b.castling_rights_[color],
                            CastlingRights(FALSE, FALSE), kNoLocation) >>
             ELSE <<>>

\* up-left, up-right, down-left, down-right, then up, left, right, down;
\* the castling moves are generated nowhere (their bodies are commented out)
GetKingMovesDirect(b, from, color) ==
  KingDiagonalMove(b, from, color, <<-1, -1>>)
  \o KingDiagonalMove(b, from, color, <<-1, 1>>)
  \o KingDiagonalMove(b, from, color, <<1, -1>>)
  \o KingDiagonalMove(b, from, color, <<1, 1>>)
  \o StepMove(b, from, color, <<-1, 0>>)
  \o StepMove(b, from, color, <<0, -1>>)
  \o StepMove(b, from, color, <<0, 1>>)
  \o StepMove(b, from, color, <<1, 0>>)

PieceMoves(b, placed, color) ==
  CASE placed.piece.type = "QUEEN" ->
         GetBishopMovesDirect(b, placed.loc, color) \o GetRookMovesDirect(b, placed.loc, color)
    [] placed.piece.type = "ROOK" -> GetRookMovesDirect(b, placed.loc, color)
    [] placed.piece.type = "BISHOP" -> GetBishopMovesDirect(b, placed.loc, color)
    [] placed.piece.type = "PAWN" -> GetPawnMovesDirect(b, placed.loc, color)
    [] placed.piece.type = "KNIGHT" -> GetKnightMovesDirect(b, placed.loc, color)
    [] placed.piece.type = "KING" -> GetKingMovesDirect(b, placed.loc, color)
    [] OTHER -> <<>>

\* Board::GetPseudoLegalMoves2(buffer, limit): the moves written, in order;
\* the loop expands a piece while fewer than `limit` moves have been written
GetPseudoLegalMoves2(b, limit) ==
  LET pieces == b.piece_list_[b.turn_]
      per == [i \in 1..Len(pieces) |-> PieceMoves(b, pieces[i], b.turn_)]
      written[i \in 0..Len(pieces)] ==
        IF i = 0 THEN 0
        ELSE LET before == written[i - 1]
             IN IF before >= limit THEN before ELSE before + Len(per[i])
  IN IF limit = 0 THEN <<>>
     ELSE Flatten([i \in 1..Len(pieces) |->
            IF written[i - 1] < limit THEN per[i] ELSE <<>>])

\* the generator's check of what it wrote: a move from or to a square that
\* is no legal location aborts the process
MoveGenAborts(b, limit) ==
  \E m \in SeqToSet(GetPseudoLegalMoves2(b, limit)) :
    ~IsLegalLocation(m.from[1], m.from[2]) \/ ~IsLegalLocation(m.to[1], m.to[2])

-----------------------------------------------------------------------------
(* Attack and check detection *)

\* first occupied square of a ray from (r, c), or kNoPiece at the edge
RECURSIVE FirstOnRay(_, _, _, _, _)
FirstOnRay(b, r, c, dr, dc) ==
  IF ~IsLegalLocation(r, c) THEN kNoPiece
  ELSE IF Present(GetPiece(b, <<r, c>>)) THEN GetPiece(b, <<r, c>>)
       ELSE FirstOnRay(b, r + dr, c + dc, dr, dc)

\* the pawn_attacks offsets with their color_masks
PawnAttackOffsets ==
  { <<-1, -1, RED>>, <<-1, 1, RED>>, <<1, -1, YELLOW>>, <<1, 1, YELLOW>>,
    <<-1, 1, BLUE>>, <<1, 1, BLUE>>, <<-1, -1, GREEN>>, <<1, -1, GREEN>> }

IsAttackedByTeam(b, team, loc) ==
  \/ \E k \in 1..Len(kRookDirections) :
       LET d == kRookDirections[k]
           p == FirstOnRay(b, loc[1] + d[1], loc[2] + d[2], d[1], d[2])
       IN Present(p) /\ GetTeam(p.color) = team /\ p.type \in {"QUEEN", "ROOK"}
  \/ \E k \in 1..Len(kBishopDirections) :
       LET d == kBishopDirections[k]
           p == FirstOnRay(b, loc[1] + d[1], loc[2] + d[2], d[1], d[2])
       IN Present(p) /\ GetTeam(p.color) = team /\ p.type \in {"QUEEN", "BISHOP"}
  \/ \E k \in 1..Len(KnightDeltas) :
       LET r == loc[1] + KnightDeltas[k][1]
           c == loc[2] + KnightDeltas[k][2]
       IN /\ IsLegalLocation(r, c)
          /\ GetPiece(b, <<r, c>>).type = "KNIGHT"
          /\ GetTeam(GetPiece(b, <<r, c>>).color) = team
  \/ \E o \in PawnAttackOffsets :
       LET r == loc[1] + o[1]
           c == loc[2] + o[2]
       IN /\ IsLegalLocation(r, c)
          /\ GetPiece(b, <<r, c>>) = Piece(o[3], "PAWN")
          /\ GetTeam(o[3]) = team

IsKingInCheck(b, color) ==
  /\ LocPresent(b.king_locations_[color])
  /\ IsAttackedByTeam(b, OtherTeam(GetTeam(color)), b.king_locations_[color])

-----------------------------------------------------------------------------
(* The staged move picker (move_picker2.h).  A pointer to a move is a       *)
(* sequence: <<>> is nullptr, <<m>> points to m.  Indices are the code's,   *)
(* from 0; the sequences that hold them are indexed from 1.                 *)

nullptr == <<>>

PtrTo(m) == <<m>>

\* Move::operator==
MoveEquals(a, b) == a = b

IsCapture(move) == Present(move.standard_capture)

InitMovePicker2(moves, pv_move, killer1, killer2, cont_hist) ==
  [moves |-> moves, count |-> Len(moves), current |-> 0,
   pv_move |-> pv_move, killer1 |-> killer1, killer2 |-> killer2,
   cont_hist |-> cont_hist, phase |-> 0, remaining_sorted |-> FALSE,
   move_indices |-> [i \in 1..Len(moves) |-> i - 1]]

MoveExists(moves, start, end, move) ==
  \E i \in start..(end - 1) : MoveEquals(moves[i + 1], move)

SamePointee(p, q) == p # nullptr /\ q # nullptr /\ MoveEquals(p[1], q[1])

\* the outcomes std::sort may leave for the scored moves: the relative
\* indices 0..n-1 in an order of non-increasing score
SortOutcomes(scores, n) ==
  {order \in [1..n -> 0..(n - 1)] :
     /\ \A i, j \in 1..n : i # j => order[i] # order[j]
     /\ \A i, j \in 1..n : i < j => scores[order[i]] >= scores[order[j]]}

\* phase 3, lines 227-235: move_indices[current + i] = scored_moves[i].idx,
\* the index relative to current that the scoring loop stored
PickerSortRemaining(pk, order) ==
  LET remaining_moves == pk.count - pk.current
  IN [pk EXCEPT
        !.move_indices =
           [k \in 1..pk.count |->
              IF k - 1 >= pk.current /\ k - 1 < pk.current + remaining_moves
              THEN order[k - pk.current]
              ELSE pk.move_indices[k]],
        !.remaining_sorted = TRUE]

\* whether this call of GetNextMove2 sorts the remaining moves
PickerSorts(pk) ==
  /\ ~pk.remaining_sorted
  /\ pk.cont_hist
  /\ pk.count - pk.current > 1
  /\ ~(pk.phase = 0 /\ pk.pv_move # nullptr)
  /\ ~(pk.phase <= 1
       /\ pk.killer1 # nullptr
       /\ ~SamePointee(pk.killer1, pk.pv_move)
       /\ MoveExists(pk.moves, pk.current, pk.count, pk.killer1[1]))
  /\ ~(pk.phase <= 2
       /\ pk.killer2 # nullptr
       /\ ~SamePointee(pk.killer2, pk.pv_move)
       /\ ~SamePointee(pk.killer2, pk.killer1)
       /\ MoveExists(pk.moves, pk.current, pk.count, pk.killer2[1]))

PickerResult(pk, move) == [picker |-> pk, move |-> move]

PickerPhase3(pk, order) ==
  LET p1 == IF ~pk.remaining_sorted /\ pk.cont_hist
               /\ pk.count - pk.current > 1
            THEN PickerSortRemaining(pk, order) ELSE pk
  IN IF p1.current < p1.count
     THEN PickerResult([p1 EXCEPT !.current = @ + 1],
                       PtrTo(p1.moves[p1.move_indices[p1.current + 1] + 1]))
     ELSE PickerResult(p1, nullptr)

PickerPhase2(pk, order) ==
  LET p1 == [pk EXCEPT !.phase = 3]
  IN IF /\ p1.killer2 # nullptr
        /\ ~SamePointee(p1.killer2, p1.pv_move)
        /\ ~SamePointee(p1.killer2, p1.killer1)
        /\ MoveExists(p1.moves, p1.current, p1.count, p1.killer2[1])
     THEN PickerResult(p1, p1.killer2)
     ELSE PickerPhase3(p1, order)

PickerPhase1(pk, order) ==
  LET p1 == [pk EXCEPT !.phase = 2]
  IN IF /\ p1.killer1 # nullptr
        /\ ~SamePointee(p1.killer1, p1.pv_move)
        /\ MoveExists(p1.moves, p1.current, p1.count, p1.killer1[1])
     THEN PickerResult(p1, p1.killer1)
     ELSE PickerPhase2(p1, order)

PickerPhase0(pk, order) ==
  LET p1 == [pk EXCEPT !.phase = 1]
  IN IF p1.pv_move # nullptr
     THEN PickerResult(
            IF p1.current < p1.count
               /\ MoveEquals(p1.moves[p1.current + 1], p1.pv_move[1])
            THEN [p1 EXCEPT !.current = @ + 1] ELSE p1,
            p1.pv_move)
     ELSE PickerPhase1(p1, order)

\* GetNextMove2(picker): the picker afterwards and the pointer returned;
\* `order` is what std::sort leaves if this call sorts
GetNextMove2(pk, order) ==
  CASE pk.phase = 0 -> PickerPhase0(pk, order)
    [] pk.phase = 1 -> PickerPhase1(pk, order)
    [] pk.phase = 2 -> PickerPhase2(pk, order)
    [] pk.phase = 3 -> PickerPhase3(pk, order)
    [] OTHER -> PickerResult(pk, nullptr)

-----------------------------------------------------------------------------
(* The alpha-beta search (player.cc): values and pure parts of Search.      *)
(* An optional is a sequence: <<>> is std::nullopt, <<x>> holds x.          *)

nullopt == <<>>

Optional(x) == <<x>>

kMateValue == 1000000

value_none_tt == -119988

kBufferPartitionSize == 300

Min(a, b) == IF a <= b THEN a ELSE b

Max(a, b) == IF a >= b THEN a ELSE b

Abs(a) == IF a >= 0 THEN a ELSE -a

\* C++ integer division, which truncates toward zero
CDiv(a, b) == IF a >= 0 THEN a \div b ELSE -((-a) \div b)

\* (int) std::sqrt(n) for n >= 0
RECURSIVE ISqrtFrom(_, _)
ISqrtFrom(n, k) == IF (k + 1) * (k + 1) > n THEN k ELSE ISqrtFrom(n, k + 1)

ISqrt(n) == ISqrtFrom(n, 0)

\* Move::Present()
MovePresent(move) == move # kNoMove

\* a PVInfo is the line of its best moves: its own, then its child's
PVGetBestMove(pvinfo) == IF pvinfo = <<>> THEN nullopt ELSE Optional(pvinfo[1])

PVSetBestMove(pvinfo, move) ==
  IF pvinfo = <<>> THEN <<move>> ELSE <<move>> \o Tail(pvinfo)

PVSetChildAndBestMove(child_pvinfo, move) == <<move>> \o child_pvinfo

PVGetChild(pvinfo) == IF pvinfo = <<>> THEN <<>> ELSE Tail(pvinfo)

\* PVInfo::GetDepth
PVGetDepth(pvinfo) == Len(pvinfo)

\* Board::CheckWasLastMoveKingCapture
CheckWasLastMoveKingCapture(b) ==
  IF b.moves_ # <<>>
     /\ Present(b.moves_[Len(b.moves_)].standard_capture)
     /\ b.moves_[Len(b.moves_)].standard_capture.type = "KING"
  THEN IF GetTeam(b.moves_[Len(b.moves_)].standard_capture.color) = "RED_YELLOW"
       THEN "WIN_BG" ELSE "WIN_RY"
  ELSE "IN_PROGRESS"

\* the loop of Board::GetGameResult over the generated moves, from move i on:
\* each move is made and undone on the board, so the board is threaded along
RECURSIVE GameResultFrom(_, _, _, _)
GameResultFrom(b, player, moves, i) ==
  IF i > Len(moves)
  THEN [result |-> IF ~IsKingInCheck(b, player) THEN "STALEMATE"
                   ELSE IF player \in {RED, YELLOW} THEN "WIN_BG" ELSE "WIN_RY",
        board |-> b]
  ELSE LET made == MakeMove(b, moves[i])
           king_capture_result == CheckWasLastMoveKingCapture(made)
           legal == ~IsKingInCheck(made, player)
       IN IF king_capture_result # "IN_PROGRESS"
          THEN [result |-> king_capture_result, board |-> UndoMove(made)]
          ELSE IF legal
               THEN [result |-> "IN_PROGRESS", board |-> UndoMove(made)]
               ELSE GameResultFrom(UndoMove(made), player, moves, i + 1)

\* a game result that never looks for the king of the side to move
GetGameResultNoKingTest(b) ==
  GameResultFrom(b, b.turn_, GetPseudoLegalMoves2(b, kBufferPartitionSize), 1)

\* Board::GetGameResult: the result and the board it leaves; the positions
\* explored have far fewer moves than any move buffer holds
GetGameResult(b) ==
  IF ~LocPresent(b.king_locations_[b.turn_])
  THEN [result |-> IF GetTeam(b.turn_) = "RED_YELLOW" THEN "WIN_BG" ELSE "WIN_RY",
        board |-> b]
  ELSE GameResultFrom(b, b.turn_, GetPseudoLegalMoves2(b, kBufferPartitionSize), 1)

\* what the mobility and threat terms of Evaluate add to the material sum
MobilityAndThreatTerms == {-60, 18}

\* AlphaBetaPlayer::Evaluate: the values it may return
EvaluateOutcomes(b, maximizing_player, alpha, beta) ==
  LET game_result == CheckWasLastMoveKingCapture(b)
      material == b.piece_evaluation_
      re == IF maximizing_player THEN material ELSE -material
      kMargin == 600
      evals ==
        IF game_result = "WIN_RY" THEN {kMateValue}
        ELSE IF game_result = "WIN_BG" THEN {-kMateValue}
        ELSE IF re + kMargin <= alpha \/ re >= beta + kMargin THEN {material}
        ELSE IF Len(b.moves_) = 0 THEN {0}
        ELSE {material + t : t \in MobilityAndThreatTerms}
  IN {IF maximizing_player THEN e ELSE -e : e \in evals}

\* HashTableEntry: the fields Search reads
HashTableEntry(depth, bound, score, move) ==
  [depth |-> depth, bound |-> bound, score |-> score, move |-> move]

TTScores == {100}

\* the moves an entry of the table may carry: none, or the first move of
\* the position
TTMoves(b) ==
  LET moves == GetPseudoLegalMoves2(b, kBufferPartitionSize)
  IN {kNoMove} \cup (IF moves = <<>> THEN {} ELSE {moves[1]})

\* what transposition_table_->Get(key) may hand to a Search at `depth` when
\* the key matches: entries other searches saved for this position
TTEntries(b, depth) ==
  {HashTableEntry(d, bound, score, move) :
     d \in {depth},
     bound \in {"EXACT", "LOWER_BOUND", "UPPER_BOUND"},
     score \in TTScores,
     move \in TTMoves(b)}

\* the early cutoff at a non-PV node, lines 276-282
TTCutoff(tte, node_type, ply, depth, alpha, beta) ==
  /\ tte.depth >= depth
  /\ ply # 1
  /\ node_type = "NonPV"
  /\ \/ tte.bound = "EXACT"
     \/ tte.bound = "LOWER_BOUND" /\ tte.score >= beta
     \/ tte.bound = "UPPER_BOUND" /\ tte.score <= alpha

\* GetNextKingCaptureMoves, else GetPrevKingCaptureMoves: the moves of the
\* side to move that take the king of the next, else of the previous player
KingCaptureMovesOf(b, victim) ==
  SelectSeq(GetPseudoLegalMoves2(b, kBufferPartitionSize),
            LAMBDA m : m.standard_capture = Piece(victim, "KING"))

KingCaptureMoves(b) ==
  IF KingCaptureMovesOf(b, GetNextPlayer(b.turn_)) # <<>>
  THEN KingCaptureMovesOf(b, GetNextPlayer(b.turn_))
  ELSE KingCaptureMovesOf(b, GetPreviousPlayer(b.turn_))

\* the pv_index GetPseudoLegalMoves2 reports for its hint, as a pointer
PvPointer(moves, hint) ==
  LET hits == {i \in 1..Len(moves) : hint # nullopt /\ MoveEquals(moves[i], hint[1])}
  IN IF hits = {} THEN nullptr
     ELSE PtrTo(moves[CHOOSE i \in hits : \A j \in hits : i <= j])

\* the order std::sort leaves when the history tables hold zeros: the score
\* is 0.5 * (1 - i/n) + (0.5 if capture), so captures in list order, then
\* the other moves in list order
RECURSIVE RelativeIndices(_, _, _, _)
RelativeIndices(pk, i, n, captures) ==
  IF i >= n THEN <<>>
  ELSE (IF IsCapture(pk.moves[pk.current + i + 1]) = captures THEN <<i>> ELSE <<>>)
       \o RelativeIndices(pk, i + 1, n, captures)

ZeroHistoryOrder(pk) ==
  RelativeIndices(pk, 0, pk.count - pk.current, TRUE)
  \o RelativeIndices(pk, 0, pk.count - pk.current, FALSE)

\* one entry of the per-ply Stack array
StackEntry(killers0, killers1, excludedMove, current_move) ==
  [killers |-> <<killers0, killers1>>, excludedMove |-> excludedMove,
   current_move |-> current_move]

\* GetNextMove2 as Search calls it: the picker holds pointers to ss->killers
SearchNextMove(f, entry) ==
  LET pk == [f.picker EXCEPT !.killer1 = PtrTo(entry.killers[1]),
                             !.killer2 = PtrTo(entry.killers[2])]
  IN GetNextMove2(pk, ZeroHistoryOrder(pk))

\* a mover's check test that lets every move through
MoverInCheckNever(b, player) == FALSE

\* line 453: the move just made left the mover's own king attacked
MoverInCheck(b, player) == IsKingInCheck(b, player)

\* the reduction r before the singular extension, lines 474-479
BaseReduction(move_count, is_cut_node) ==
  1 + (IF move_count >= 4 THEN 1 ELSE 0) + (IF move_count >= 8 THEN 1 ELSE 0)
    + (IF is_cut_node THEN 1 ELSE 0)

\* the condition of the singular extension search, lines 500-509
SingularCondition(f, entry, move) ==
  /\ f.ply # 1
  /\ f.move_count >= 1
  /\ f.tt_move # nullopt /\ MoveEquals(move, f.tt_move[1])
  /\ ~MovePresent(entry.excludedMove)
  /\ f.depth >= 8
  /\ f.tte # nullopt
  /\ f.tte[1].score # value_none_tt
  /\ Abs(f.tte[1].score) < kMateValue
  /\ f.tte[1].bound = "LOWER_BOUND"
  /\ f.tte[1].depth >= f.depth - 3

\* r = -1 for every move at the horizon
HorizonReduction(f, ss_prev1, ss_prev3, move, r) ==
  IF f.depth <= 1 /\ f.ply >= 4 THEN -1 ELSE r

\* lines 539-549: r = -1 for a recapture at the horizon
RecaptureReduction(f, ss_prev1, ss_prev3, move, r) ==
  IF f.depth <= 1 /\ f.ply >= 4
     /\ (ss_prev1.current_move.to = move.to \/ ss_prev3.current_move.to = move.to)
  THEN -1 ELSE r

B2I(cond) == IF cond THEN 1 ELSE 0

\* depth of the child search of each stage
ChildDepth(stage, depth, r) ==
  CASE stage = "lmr1" ->
         depth - 1 - (depth \div 2) - (depth \div 4) * B2I(r > 0)
           - (depth \div 8) * B2I(r > 1) - (depth \div 16) * B2I(r > 2) + B2I(r < 0)
    [] stage \in {"lmr2", "lmr3"} ->
         depth - 1 - (depth \div 2) * B2I(r > 0) - (depth \div 4) * B2I(r > 1)
           - (depth \div 8) * B2I(r > 2) + B2I(r < 0)
    [] stage = "nonpv" ->
         depth - 1 - (depth \div 2) * B2I(r > 0) * B2I(depth >= 2)
           - (depth \div 4) * B2I(r > 1) * B2I(depth >= 3)
           - (depth \div 8) * B2I(r > 2) * B2I(depth >= 4) + B2I(r < 0)
    [] OTHER -> depth - 1 + B2I(r < 0)

\* the first search of a move: late move reduction at the root, a
\* null-window search, or straight to the full PV search
FirstStage(f) ==
  IF f.depth >= 5 /\ f.ply = 1 /\ f.move_count >= 2 + 2 * B2I(f.depth > 5)
  THEN "lmr1"
  ELSE IF f.node_type = "NonPV" \/ f.move_count > 1 THEN "nonpv" ELSE "full"

\* -std::get<0>(*value_and_move_or); the code reads it only from a result
\* that has a value, 0 stands for any other read
ScoreOf(value_and_move_or) ==
  IF value_and_move_or = nullopt THEN 0 ELSE -value_and_move_or[1].score

\* full_search, lines 621-629
FullSearch(f, value_and_move_or) ==
  /\ f.node_type # "NonPV"
  /\ \/ f.move_count = 1
     \/ /\ value_and_move_or # nullopt
        /\ ScoreOf(value_and_move_or) > f.alpha
        /\ (f.ply = 1 \/ ScoreOf(value_and_move_or) < f.beta)

\* the search that follows the result of a stage, "none" when the move is
\* done: the re-search ladder of lines 565-603, then full_search
NextStage(f, value_and_move_or) ==
  LET has_value == value_and_move_or # nullopt
      score == ScoreOf(value_and_move_or)
  IN IF f.stage = "lmr1" /\ has_value /\ score > f.alpha
     THEN (IF score < f.alpha + 150 THEN "lmr2" ELSE "lmr3")
     ELSE IF f.stage = "lmr2" /\ has_value /\ score > f.alpha
     THEN "lmr3"
     ELSE IF f.stage # "full" /\ FullSearch(f, value_and_move_or)
     THEN "full"
     ELSE "none"

\* a test of the child's result that never sees it missing
ResultMissingNever(value_and_move_or) == FALSE

\* line 643: !value_and_move_or.has_value()
ResultMissing(value_and_move_or) == value_and_move_or = nullopt

\* an undo that leaves the turn with the next player
UndoSearchedMoveKeepsTurn(b) == [UndoMove(b) EXCEPT !.turn_ = b.turn_]

\* line 641: board.UndoMove() after the searches of a move
UndoSearchedMove(b) == UndoMove(b)

\* lines 746-751: the killers of this ply after a search with a best move
UpdateKillers(entry, best_move) ==
  IF best_move # nullopt /\ entry.killers[1] # best_move[1]
  THEN [entry EXCEPT !.killers = <<best_move[1], entry.killers[1]>>]
  ELSE entry

-----------------------------------------------------------------------------
(* Boards the exploration starts from, built by the constructor *)

\* size of a caller's move buffer (GetNumLegalMoves)
kLimit == 300

PseudoLegalMoves(b) == GetPseudoLegalMoves2(b, kLimit)

\* kings in the corners of the cross; the red pawn can take the blue king,
\* the blue king can take the red pawn
PositionA ==
  BoardCtor(RED,
    << PlacedPiece(<<13, 3>>, Piece(RED, "KING")),
       PlacedPiece(<<10, 1>>, Piece(RED, "PAWN")),
       PlacedPiece(<<9, 0>>, Piece(BLUE, "KING")),
       PlacedPiece(<<10, 0>>, Piece(BLUE, "KNIGHT")),
       PlacedPiece(<<0, 10>>, Piece(YELLOW, "KING")),
       PlacedPiece(<<10, 13>>, Piece(GREEN, "KING")) >>,
    [c \in Colors |->
       CASE c = RED -> CastlingRights(TRUE, TRUE)
         [] c = BLUE -> CastlingRights(TRUE, FALSE)
         [] c = YELLOW -> CastlingRights(FALSE, FALSE)
         [] OTHER -> CastlingRights(TRUE, TRUE)])

InitBoards == {PositionA}

-----------------------------------------------------------------------------
(* The transposition table: TranspositionTable and HashTableEntry *)

TableSize == 1

MaxKey == 1

kNumMutexes == 256

\* the hash keys of the positions searched
Keys == 0..MaxKey

\* the threads that search with the one table of the player
TableThreads == {1, 2}

\* the thread whose Search is followed step by step; of the other threads
\* only the Saves at the exits of their Searches are
Followed == {1}

TableEntry(key, depth, move, score, eval, bound, is_pv) ==
  [key |-> key, depth |-> depth, move |-> move, score |-> score, eval |-> eval,
   bound |-> bound, is_pv |-> is_pv]

\* an entry of the table after calloc: every field zero (EXACT = 0)
kZeroEntry == TableEntry(0, 0, kNoMove, 0, 0, "EXACT", FALSE)

\* n = key % table_size_, and the mutex of that slot
SlotOf(key) == key % TableSize

MutexOf(n) == n % kNumMutexes

\* the depth, move, score, eval, bound and is_pv handed to Save
SaveArg(depth, move, score, eval, bound, is_pv) ==
  [depth |-> depth, move |-> move, score |-> score, eval |-> eval,
   bound |-> bound, is_pv |-> is_pv]

SaveArgs ==
  { SaveArg(8, Optional(SimpleMoveOf(<<12, 5>>, <<11, 5>>, kNoPiece)), 10, 1,
            "LOWER_BOUND", FALSE),
    SaveArg(8, nullopt, 20, 2, "EXACT", TRUE),
    SaveArg(9, Optional(SimpleMoveOf(<<12, 7>>, <<11, 7>>, kNoPiece)), 30, 3,
            "UPPER_BOUND", FALSE) }

\* a Save that replaces only what a deeper search or an exact bound beats
SaveReplacesDeeperOnly(entry, key, depth, bound) ==
  bound = "EXACT" \/ entry.depth <= depth

\* the condition of Save, line 35-37
SaveReplaces(entry, key, depth, bound) ==
  \/ bound = "EXACT"
  \/ entry.key # key
  \/ entry.depth <= depth

\* lines 38-44: key, depth and move are written
SaveFirstFields(entry, key, arg) ==
  [entry EXCEPT !.key = key, !.depth = arg.depth,
                !.move = IF arg.move # nullopt THEN arg.move[1] ELSE kNoMove]

\* lines 45-48: score, eval, bound and is_pv are written
SaveLastFields(entry, arg) ==
  [entry EXCEPT !.score = arg.score, !.eval = arg.eval, !.bound = arg.bound,
                !.is_pv = arg.is_pv]

\* a Get that hands out the slot of the key whatever it holds
GetSlot(table, key) == PtrTo(SlotOf(key))

\* TranspositionTable::Get: the slot of the key, or nullptr
Get(table, key) ==
  IF table[SlotOf(key)].key = key THEN PtrTo(SlotOf(key)) ELSE nullptr

\* the table locals of a Search invocation that has not started
NoProbe ==
  [pc |-> "idle", key |-> 0, depth |-> 0, tte |-> nullptr, tt_hit |-> FALSE,
   tt_move |-> nullopt, used |-> "none", read |-> kZeroEntry,
   save_key |-> 0, save_arg |-> nullopt, save_then |-> "idle"]

TableIdle ==
  /\ hash_table_ = [n \in 0..(TableSize - 1) |-> kZeroEntry]
  /\ a_mutexes_ = [m \in {MutexOf(n) : n \in 0..(TableSize - 1)} |-> 0]
  /\ probes = [t \in TableThreads |-> NoProbe]

-----------------------------------------------------------------------------
(* The history heuristic and the continuation history: the tables of the    *)
(* player that UpdateStats writes (player.cc) and the move picker reads     *)
(* when it scores the remaining moves (move_picker2.h).  A cell of          *)
(* history_heuristic is its offset in the array, in ints.                   *)

\* the threads that use the tables
HistoryThreads == {1, 2}

\* the value a cell is let grow to before no more updates are explored
MaxHistory == 2

\* the bound on the depth of the nodes that update the tables
MaxHistoryDepth == 1

\* the first dimension of history_heuristic, as AgeHistoryHeuristics walks it
kHistoryPieceTypes == 6

\* the pool of heuristic_mutexes_; its size is declared in player.h
kHeuristicMutexes == 64

\* the enumerators of PieceType, in the order of kPieceValues
PieceTypeNumber(type) ==
  CASE type = "NO_PIECE" -> 0
    [] type = "PAWN" -> 1
    [] type = "KING" -> 2
    [] type = "QUEEN" -> 3
    [] type = "ROOK" -> 4
    [] type = "BISHOP" -> 5
    [] type = "KNIGHT" -> 6

\* a[i1][i2][i3][i4][i5] of an array whose last four dimensions are 14
FlatOffset(i1, i2, i3, i4, i5) ==
  (((i1 * 14 + i2) * 14 + i3) * 14 + i4) * 14 + i5

\* the cell [pt][from_row][from_col][to_row][to_col]
PieceFromToCell(pt, move) ==
  FlatOffset(PieceTypeNumber(pt), move.from[1], move.from[2], move.to[1], move.to[2])

\* UpdateStats: history_heuristic[piece type][from row][from col][to row][to col]
UpdateStatsCell(pt, move) == PieceFromToCell(pt, move)

\* GetNextMove2: history_heuristic[from_row][from_col][to_row][to_col][pt]
\* through the pointer int (*)[14][14][14][14]
PickerCell(pt, move) ==
  FlatOffset(move.from[1], move.from[2], move.to[1], move.to[2], PieceTypeNumber(pt))

\* the offset is inside the array
InHistoryArray(cell) == cell < kHistoryPieceTypes * 14 * 14 * 14 * 14

\* a cell of a PieceToHistory of [is_capture][piece_type]: [to_row * 14 + to_col]
ContinuationCell(pt, move) ==
  <<IsCapture(move), PieceTypeNumber(pt), move.to[1] * 14 + move.to[2]>>

\* size_t lock_key of UpdateStats and of GetNextMove2
LockKey(move) ==
  (move.from[1] * 14 + move.from[2]) * 196 + (move.to[1] * 14 + move.to[2])

\* the mutex of the pool that UpdateStats takes for a move
HeuristicMutexOf(move) == LockKey(move) % kHeuristicMutexes

\* int bonus = 1 << (fail_high ? depth + 1 : depth)
Bonus(depth, fail_high) == 2 ^ (IF fail_high THEN depth + 1 ELSE depth)

\* StatsEntry::operator<< with D = 2147483647
StatsEntryAdd(entry, bonus) == entry + Min(2147483647 - entry, bonus)

\* a piece type and a move of such a piece
HistoryInput(pt, from, to) ==
  [piece_type |-> pt, move |-> SimpleMoveOf(from, to, kNoPiece)]

\* the moves scored and rewarded: two queen moves such that the picker's
\* cell of the first is UpdateStats' cell of the second, which starts from
\* the last row; a queen move to the destination of the first
HistoryInputs ==
  { HistoryInput("QUEEN", <<3, 13>>, <<4, 12>>),
    HistoryInput("QUEEN", <<13, 4>>, <<12, 3>>),
    HistoryInput("QUEEN", <<5, 11>>, <<4, 12>>) }

\* how many of the plies before the node have a current move
HistoryPlies == {0, 1}

\* what a read outside the array may give
StrayValues == {0, 7}

HistoryCells ==
  { c \in { UpdateStatsCell(i.piece_type, i.move) : i \in HistoryInputs }
           \cup { PickerCell(i.piece_type, i.move) : i \in HistoryInputs } :
      InHistoryArray(c) }

ContinuationCells ==
  { ContinuationCell(i.piece_type, i.move) : i \in HistoryInputs }

\* a thread that is neither in UpdateStats nor scoring a move
NoHistoryUse ==
  [pc |-> "idle", input |-> HistoryInput("NO_PIECE", kNoLocation, kNoLocation),
   bonus |-> 0, plies |-> 0, cell |-> -1, hist_value |-> 0, cont_value |-> 0]

HistoryIdle ==
  /\ history_heuristic = [c \in HistoryCells |-> 0]
  /\ dummy_history = [c \in ContinuationCells |-> 0]
  /\ heuristic_mutexes_ =
       [m \in { HeuristicMutexOf(i.move) : i \in HistoryInputs } |-> 0]
  /\ mtx = 0
  /\ history_threads = [t \in HistoryThreads |-> NoHistoryUse]

-----------------------------------------------------------------------------
(* The board as a state machine: Board's mutating operations *)

Op(name, capture, n) == [op |-> name, capture |-> capture, count |-> n]

BoardIdle ==
  /\ board = PositionA
  /\ last_op = Op("Board", kNoPiece, 0)
  /\ null_depth = 0

PickerIdle ==
  /\ picker = InitMovePicker2(<<>>, nullptr, nullptr, nullptr, FALSE)
  /\ returned = <<>>
  /\ picker_done = FALSE

\* the values of a thread that is not searching
kNoReturn ==
  [kind |-> "none", score |-> 0, move |-> nullopt, path |-> "none",
   pvinfo |-> <<>>, call |-> "none", callee_absent |-> FALSE, depth |-> 0,
   window |-> <<0, 0>>, singular_absent |-> FALSE, invalid_moves |-> 0,
   node_type |-> "none", alpha |-> 0, has_legal_moves |-> FALSE,
   in_check |-> FALSE, bound |-> "none"]

NoDriver ==
  [pc |-> "idle", thread_id |-> 0, aspiration |-> FALSE, max_depth |-> 0,
   next_depth |-> 0, res |-> nullopt, searched_depth |-> 0,
   alpha |-> -kMateValue, beta |-> kMateValue, delta |-> 0, fail_cnt |-> 0,
   maximizing_player |-> TRUE, pv_info |-> <<>>, average_root_eval_ |-> 0,
   asp_nobs_ |-> 0, asp_sum_ |-> 0, asp_sum_sq_ |-> 0, result |-> nullopt,
   exit |-> "none"]

\* Stack stack[kMaxPly + 10], value-initialized; ss = stack + 7 is the entry
\* of ply 1, so the entry of ply p is stack[p + 6]
NewStackArray ==
  [p \in (-6)..(MaxNodes + 4) |-> StackEntry(kNoMove, kNoMove, kNoMove, kNoMove)]

ThreadsIdle ==
  /\ main_pc = "idle"
  /\ canceled_ = FALSE
  /\ deadline_passed = FALSE
  /\ num_threads = 0
  /\ threads = <<>>
  /\ joined = {}
  /\ TableIdle
  /\ HistoryIdle

SearchIdle ==
  /\ driver = NoDriver
  /\ stack = <<>>
  /\ ss = NewStackArray
  /\ ret = kNoReturn
  /\ expired = FALSE
  /\ num_nodes_ = 0
  /\ table_hits = 0
  /\ buffer_id_ = 0
  /\ completed = nullopt

Init ==
  /\ board \in InitBoards
  /\ last_op = Op("Board", kNoPiece, 0)
  /\ null_depth = 0
  /\ PickerIdle
  /\ SearchIdle
  /\ ThreadsIdle

DoMakeMove ==
  /\ last_op.count < MaxOps
  /\ Len(board.moves_) < MaxMoves
  /\ ~MoveGenAborts(board, kLimit)
  /\ \E move \in SeqToSet(PseudoLegalMoves(board)) :
       /\ board' = MakeMove(board, move)
       /\ last_op' = Op("MakeMove", move.standard_capture, last_op.count + 1)
  /\ UNCHANGED <<null_depth, pickerVars, searchVars, threadVars>>

DoUndoMove ==
  /\ last_op.count < MaxOps
  /\ board.moves_ # <<>>
  /\ board' = UndoMove(board)
  /\ last_op' = Op("UndoMove", board.moves_[Len(board.moves_)].standard_capture,
                   last_op.count + 1)
  /\ UNCHANGED <<null_depth, pickerVars, searchVars, threadVars>>

DoMakeNullMove ==
  /\ last_op.count < MaxOps
  /\ null_depth < MaxNull
  /\ board' = MakeNullMove(board)
  /\ last_op' = Op("MakeNullMove", kNoPiece, last_op.count + 1)
  /\ null_depth' = null_depth + 1
  /\ UNCHANGED <<pickerVars, searchVars, threadVars>>

DoUndoNullMove ==
  /\ last_op.count < MaxOps
  /\ null_depth > 0
  /\ board' = UndoNullMove(board)
  /\ last_op' = Op("UndoNullMove", kNoPiece, last_op.count + 1)
  /\ null_depth' = null_depth - 1
  /\ UNCHANGED <<pickerVars, searchVars, threadVars>>

Next ==
  \/ DoMakeMove
  \/ DoUndoMove
  \/ DoMakeNullMove
  \/ DoUndoNullMove

Spec == Init /\ [][Next]_vars

-----------------------------------------------------------------------------
(* Move generation and Board::GetGameResult over constructed positions: a   *)
(* red piece in the centre, one more piece on a rook ray, a bishop ray or a *)
(* knight target of it, and rooks that confine or attack the red king       *)

KingHome(color) ==
  CASE color = RED -> <<13, 3>>
    [] color = BLUE -> <<9, 0>>
    [] color = YELLOW -> <<0, 10>>
    [] OTHER -> <<10, 13>>

GenPieceTypes == {"NONE", "ROOK", "BISHOP", "QUEEN", "KNIGHT", "PAWN"}

GenSquares == {<<7, 10>>, <<6, 6>>, <<5, 8>>}

\* a green rook covers the row in front of the red king in both "confined"
\* and "check"; a blue rook covers the square beside the king in "confined"
\* and attacks the king along its row in "check"; in "no_king" the side to
\* move has no king at home
GenScenarios == {"quiet", "confined", "check", "no_king"}

GenPlaced(turn, scenario, type, color, other_type, loc) ==
  Flatten([k \in 1..4 |->
    LET c == <<RED, BLUE, YELLOW, GREEN>>[k]
    IN IF (other_type = "KING" /\ color = c) \/ (scenario = "no_king" /\ turn = c)
       THEN <<>>
       ELSE << PlacedPiece(KingHome(c), Piece(c, "KING")) >>])
  \o (IF type = "NONE" THEN <<>> ELSE << PlacedPiece(<<7, 7>>, Piece(RED, type)) >>)
  \o << PlacedPiece(loc, Piece(color, other_type)) >>
  \o (IF scenario \in {"confined", "check"}
      THEN << PlacedPiece(<<12, 10>>, Piece(GREEN, "ROOK")) >> ELSE <<>>)
  \o (IF scenario = "confined"
      THEN << PlacedPiece(<<3, 4>>, Piece(BLUE, "ROOK")) >> ELSE <<>>)
  \o (IF scenario = "check"
      THEN << PlacedPiece(<<13, 10>>, Piece(BLUE, "ROOK")) >> ELSE <<>>)

GenBoards ==
  { BoardCtor(turn, GenPlaced(turn, scenario, type, color, other_type, loc),
              [c \in Colors |-> CastlingRights(FALSE, FALSE)]) :
      turn \in {RED, BLUE}, scenario \in GenScenarios, type \in GenPieceTypes,
      color \in Colors, other_type \in {"PAWN", "KING"}, loc \in GenSquares }

\* Board::CreateStandardSetup: the pieces of each colour from its first
\* square on, each with its pawn in front of it
StandardPieceTypes ==
  <<"ROOK", "KNIGHT", "BISHOP", "QUEEN", "KING", "BISHOP", "KNIGHT", "ROOK">>

\* first piece location, step between pieces, offset of the pawn
StandardLayout(color) ==
  CASE color = RED -> [first |-> <<13, 3>>, delta |-> <<0, 1>>, pawn |-> <<-1, 0>>]
    [] color = BLUE -> [first |-> <<3, 0>>, delta |-> <<1, 0>>, pawn |-> <<0, 1>>]
    [] color = YELLOW -> [first |-> <<0, 10>>, delta |-> <<0, -1>>, pawn |-> <<1, 0>>]
    [] OTHER -> [first |-> <<10, 13>>, delta |-> <<-1, 0>>, pawn |-> <<0, -1>>]

StandardPlaced ==
  Flatten([k \in 1..4 |->
    LET color == <<RED, BLUE, YELLOW, GREEN>>[k]
        lay == StandardLayout(color)
    IN Flatten([i \in 1..Len(StandardPieceTypes) |->
         LET loc == <<lay.first[1] + (i - 1) * lay.delta[1],
                      lay.first[2] + (i - 1) * lay.delta[2]>>
         IN << PlacedPiece(loc, Piece(color, StandardPieceTypes[i])),
               PlacedPiece(<<loc[1] + lay.pawn[1], loc[2] + lay.pawn[2]>>,
                           Piece(color, "PAWN")) >>])])

CreateStandardSetup ==
  BoardCtor(RED, StandardPlaced, [c \in Colors |-> CastlingRights(TRUE, TRUE)])

\* Board::SetPlayer: the turn of a board on which no move has been made
SetPlayer(b, color) ==
  [UpdateTurnHash(UpdateTurnHash(b, b.turn_), color) EXCEPT !.turn_ = color]

StandardBoards == { SetPlayer(CreateStandardSetup, color) : color \in Colors }

\* red to move with king and both rooks on their standard squares and
\* nothing between or attacking them, a red pawn one step from its promotion
\* line with a blue pawn to take on that line, and a red pawn on its starting
\* line whose double step lands beside a blue pawn
PositionD ==
  BoardCtor(RED,
            << PlacedPiece(<<13, 7>>, Piece(RED, "KING")),
               PlacedPiece(<<13, 3>>, Piece(RED, "ROOK")),
               PlacedPiece(<<13, 10>>, Piece(RED, "ROOK")),
               PlacedPiece(<<4, 7>>, Piece(RED, "PAWN")),
               PlacedPiece(<<12, 5>>, Piece(RED, "PAWN")),
               PlacedPiece(<<3, 6>>, Piece(BLUE, "PAWN")),
               PlacedPiece(<<10, 4>>, Piece(BLUE, "PAWN")),
               PlacedPiece(KingHome(BLUE), Piece(BLUE, "KING")),
               PlacedPiece(KingHome(YELLOW), Piece(YELLOW, "KING")),
               PlacedPiece(KingHome(GREEN), Piece(GREEN, "KING")) >>,
            [c \in Colors |-> CastlingRights(TRUE, TRUE)])

GenInit ==
  /\ board \in GenBoards \cup StandardBoards \cup {PositionD}
  /\ last_op = Op("Board", kNoPiece, 0)
  /\ null_depth = 0
  /\ PickerIdle
  /\ SearchIdle
  /\ ThreadsIdle

\* one call of GetPseudoLegalMoves2 on the position, with a buffer that holds
\* every move: the moves written are kept in `result`
GenGetPseudoLegalMoves ==
  /\ last_op.op # "GetPseudoLegalMoves2"
  /\ ~MoveGenAborts(board, kLimit)
  /\ last_op' = [op |-> "GetPseudoLegalMoves2", capture |-> kNoPiece,
                 count |-> Len(PseudoLegalMoves(board)),
                 result |-> PseudoLegalMoves(board)]
  /\ UNCHANGED <<board, null_depth, pickerVars, searchVars, threadVars>>

\* one call of GetGameResult on the position: the value returned is kept in
\* `result`, the board is the one its MakeMove and UndoMove calls leave
GenGetGameResult ==
  /\ last_op.op # "GetGameResult"
  /\ ~MoveGenAborts(board, kLimit)
  /\ board' = GetGameResult(board).board
  /\ last_op' = [op |-> "GetGameResult", capture |-> kNoPiece,
                 count |-> 0, result |-> GetGameResult(board).result]
  /\ UNCHANGED <<null_depth, pickerVars, searchVars, threadVars>>

GenNext ==
  \/ GenGetPseudoLegalMoves
  \/ GenGetGameResult

GenSpec == GenInit /\ [][GenNext]_vars

-----------------------------------------------------------------------------
(* A game from the standard start: MakeMove of moves that              *)
(* GetPseudoLegalMoves2 returns, chosen among the moves of a few pieces *)

\* most moves made from the start
MaxLinePlies == 32

\* the moves played, as <<from, to>>: the red pawn of column 10 steps out,
\* takes a green pawn on column 11 and walks up that column to row 3, whose
\* next square (2, 11) is off the board; one knight of each colour steps
\* out and back
LineMoves ==
  { << <<12, 10>>, <<10, 10>> >>, << <<10, 10>>, <<9, 11>> >> }
    \cup { << <<r, 11>>, <<r - 1, 11>> >> : r \in 4..9 }
    \cup { << <<13, 4>>, <<11, 3>> >>, << <<11, 3>>, <<13, 4>> >>,
           << <<4, 0>>, <<5, 2>> >>, << <<5, 2>>, <<4, 0>> >>,
           << <<0, 9>>, <<2, 8>> >>, << <<2, 8>>, <<0, 9>> >>,
           << <<9, 12>>, <<9, 11>> >>,
           << <<9, 13>>, <<10, 11>> >>, << <<10, 11>>, <<9, 13>> >> }

StartInit ==
  /\ board = CreateStandardSetup
  /\ last_op = Op("Board", kNoPiece, 0)
  /\ null_depth = 0
  /\ PickerIdle
  /\ SearchIdle
  /\ ThreadsIdle

\* the caller generates the moves of the position and makes one of them
StartMakeMove ==
  /\ Len(board.moves_) < MaxLinePlies
  /\ ~MoveGenAborts(board, kLimit)
  /\ \E move \in SeqToSet(PseudoLegalMoves(board)) :
       /\ <<move.from, move.to>> \in LineMoves
       /\ board' = MakeMove(board, move)
       /\ last_op' = Op("MakeMove", move.standard_capture, last_op.count + 1)
  /\ UNCHANGED <<null_depth, pickerVars, searchVars, threadVars>>

StartNext == StartMakeMove

StartSpec == StartInit /\ [][StartNext]_vars

-----------------------------------------------------------------------------
(* One enumeration with the move picker: InitMovePicker2, then GetNextMove2 *)
(* until it returns nullptr                                                 *)

\* the moves the enumerations draw from: pseudo-legal moves of a position
MovePool == SubSeq(PseudoLegalMoves(PositionA), 1, MaxCount + 1)

\* pointers a caller may pass for a killer: none, a Move() that is no move
\* of any list, or a move of the pool
KillerPointers == {nullptr, PtrTo(kNoMove)} \cup {PtrTo(MovePool[i]) : i \in 1..Len(MovePool)}

PickerInit ==
  /\ BoardIdle
  /\ SearchIdle
  /\ ThreadsIdle
  /\ \E count \in 0..MaxCount, killer1 \in KillerPointers, killer2 \in KillerPointers,
        cont_hist \in BOOLEAN :
       \E pv_index \in (-1)..(count - 1) :
         LET moves == SubSeq(MovePool, 1, count)
         IN picker = InitMovePicker2(
                       moves,
                       IF pv_index >= 0 THEN PtrTo(moves[pv_index + 1]) ELSE nullptr,
                       killer1, killer2, cont_hist)
  /\ returned = <<>>
  /\ picker_done = FALSE

\* a call of GetNextMove2 that sorts draws the scores and what std::sort
\* leaves; a call that does not sort has nothing to draw
PickerOrders(p) ==
  IF PickerSorts(p)
  THEN UNION {SortOutcomes(scores, p.count - p.current) :
                scores \in [0..(p.count - p.current - 1) -> 0..MaxScore]}
  ELSE {<<>>}

PickerReturnsMove ==
  /\ ~picker_done
  /\ \E order \in PickerOrders(picker) :
       LET res == GetNextMove2(picker, order)
       IN /\ res.move # nullptr
          /\ picker' = res.picker
          /\ returned' = Append(returned, res.move[1])
  /\ UNCHANGED <<picker_done, boardVars, searchVars, threadVars>>

PickerReturnsNull ==
  /\ ~picker_done
  /\ \E order \in PickerOrders(picker) :
       LET res == GetNextMove2(picker, order)
       IN /\ res.move = nullptr
          /\ picker' = res.picker
  /\ picker_done' = TRUE
  /\ UNCHANGED <<returned, boardVars, searchVars, threadVars>>

PickerNext ==
  \/ PickerReturnsMove
  \/ PickerReturnsNull

PickerSpec == PickerInit /\ [][PickerNext]_vars

-----------------------------------------------------------------------------
(* AlphaBetaPlayer::Search and MakeMoveSingleThread as a state machine.     *)
(* One thread searches its own copy of the root board, held in `board`.     *)
(* A Search invocation is a frame of `stack`; a frame's pc is the place the *)
(* invocation has reached: "entry", "loop" (top of the move loop),          *)
(* "singular" (waiting for the singular-extension search), "child" (waiting *)
(* for a child search).  canceled_ and the deadline are read only at entry; *)
(* the clock does not run backwards and canceled_ is cleared only after the *)
(* threads are joined, so `expired` stays set once it is set.               *)

otherVars == <<last_op, null_depth, picker, returned, picker_done, threadVars>>

\* the red king has three pseudo-legal moves, one onto a square the blue
\* knight attacks
PositionB ==
  BoardCtor(RED,
    << PlacedPiece(<<13, 3>>, Piece(RED, "KING")),
       PlacedPiece(<<9, 0>>, Piece(BLUE, "KING")),
       PlacedPiece(<<10, 5>>, Piece(BLUE, "KNIGHT")),
       PlacedPiece(<<0, 10>>, Piece(YELLOW, "KING")),
       PlacedPiece(<<10, 13>>, Piece(GREEN, "KING")) >>,
    [c \in Colors |-> CastlingRights(FALSE, FALSE)])

\* PositionB with the yellow king where the blue knight takes it
PositionC ==
  BoardCtor(RED,
    << PlacedPiece(<<13, 3>>, Piece(RED, "KING")),
       PlacedPiece(<<9, 0>>, Piece(BLUE, "KING")),
       PlacedPiece(<<10, 5>>, Piece(BLUE, "KNIGHT")),
       PlacedPiece(<<8, 4>>, Piece(YELLOW, "KING")),
       PlacedPiece(<<10, 13>>, Piece(GREEN, "KING")) >>,
    [c \in Colors |-> CastlingRights(FALSE, FALSE)])

\* green to move with its king only; whatever it plays, the red king has
\* three pseudo-legal moves, all onto squares the blue rooks attack, and is
\* not attacked where it stands
PositionE ==
  BoardCtor(GREEN,
    << PlacedPiece(<<13, 3>>, Piece(RED, "KING")),
       PlacedPiece(<<9, 0>>, Piece(BLUE, "KING")),
       PlacedPiece(<<12, 9>>, Piece(BLUE, "ROOK")),
       PlacedPiece(<<3, 4>>, Piece(BLUE, "ROOK")),
       PlacedPiece(<<0, 10>>, Piece(YELLOW, "KING")),
       PlacedPiece(<<10, 13>>, Piece(GREEN, "KING")) >>,
    [c \in Colors |-> CastlingRights(FALSE, FALSE)])

\* green to move, its king in a corner of the cross beside the blue king:
\* it has two moves, both legal; after either, the red king has three
\* pseudo-legal moves of which the blue rook leaves one legal
PositionF ==
  BoardCtor(GREEN,
    << PlacedPiece(<<13, 3>>, Piece(RED, "KING")),
       PlacedPiece(<<4, 13>>, Piece(BLUE, "KING")),
       PlacedPiece(<<12, 9>>, Piece(BLUE, "ROOK")),
       PlacedPiece(<<0, 10>>, Piece(YELLOW, "KING")),
       PlacedPiece(<<3, 13>>, Piece(GREEN, "KING")) >>,
    [c \in Colors |-> CastlingRights(FALSE, FALSE)])

\* red to move, the kings in corners of the cross; the yellow pawn on (6, 7)
\* can step onto (7, 7), which a green, a red, a blue and a second yellow
\* pawn attack
PositionG ==
  BoardCtor(RED,
    << PlacedPiece(<<13, 3>>, Piece(RED, "KING")),
       PlacedPiece(<<8, 6>>, Piece(RED, "PAWN")),
       PlacedPiece(<<3, 0>>, Piece(BLUE, "KING")),
       PlacedPiece(<<6, 6>>, Piece(BLUE, "PAWN")),
       PlacedPiece(<<0, 10>>, Piece(YELLOW, "KING")),
       PlacedPiece(<<6, 7>>, Piece(YELLOW, "PAWN")),
       PlacedPiece(<<6, 8>>, Piece(YELLOW, "PAWN")),
       PlacedPiece(<<10, 13>>, Piece(GREEN, "KING")),
       PlacedPiece(<<8, 8>>, Piece(GREEN, "PAWN")) >>,
    [c \in Colors |-> CastlingRights(FALSE, FALSE)])

\* what a Search call is held to give back of the board it was entered with
Snapshot(b) ==
  [grid |-> b.location_to_piece_,
   pieces |-> [c \in Colors |-> SeqToSet(b.piece_list_[c])],
   king_locations_ |-> b.king_locations_,
   turn_ |-> b.turn_,
   hash_key_ |-> b.hash_key_,
   num_moves |-> Len(b.moves_)]

\* the parameters and locals of one Search invocation
Frame(call, ply, depth, node_type, alpha, beta, maximizing_player, is_cut_node,
      pvinfo, b) ==
  [call |-> call, pc |-> "entry", ply |-> ply, depth |-> depth,
   node_type |-> node_type, alpha |-> alpha, beta |-> beta,
   window |-> <<alpha, beta>>, maximizing_player |-> maximizing_player,
   is_cut_node |-> is_cut_node, pvinfo |-> pvinfo,
   entry_board |-> Snapshot(b), saw_absent |-> FALSE,
   player |-> b.turn_, tte |-> nullopt, tt_move |-> nullopt,
   pv_move |-> nullopt,
   picker |-> InitMovePicker2(<<>>, nullptr, nullptr, nullptr, TRUE),
   move_count |-> 0, invalid_moves |-> 0, has_legal_moves |-> FALSE,
   best_move |-> nullopt, move |-> kNoMove, r |-> 1, child_pvinfo |-> <<>>,
   pv_child |-> FALSE, stage |-> "none", singular_absent |-> FALSE]

Top == stack[Len(stack)]

AtPc(pc) == stack # <<>> /\ Top.pc = pc

\* lines 245-249 let the call through, and the run has nodes left
Entering == AtPc("entry") /\ ~expired /\ num_nodes_ < MaxNodes

\* lines 251-254
IsLeaf(f) == f.depth <= 0 /\ f.ply > 1

\* a root search whose value ends its iteration: strictly inside the window
\* it was given, or a proven win or loss
Conclusive(score, window) ==
  Abs(score) = kMateValue \/ (window[1] < score /\ score < window[2])

\* lines 741-742: the bound of the entry saved at the exit of the node
SavedBound(f) ==
  IF f.beta <= f.alpha THEN "LOWER_BOUND"
  ELSE IF f.node_type # "NonPV" /\ f.best_move # nullopt THEN "EXACT"
       ELSE "UPPER_BOUND"

\* a `return` of Search: the frame goes, the caller finds the result, and
\* with it what the node was and what it saved if it ran to line 743
ReturnFromSearch(f, kind, score, move, path, absent_below) ==
  /\ stack' = SubSeq(stack, 1, Len(stack) - 1)
  /\ ret' = [kind |-> kind, score |-> score, move |-> move, path |-> path,
             pvinfo |-> f.pvinfo, call |-> f.call,
             callee_absent |-> absent_below, depth |-> f.depth,
             window |-> f.window, singular_absent |-> f.singular_absent,
             invalid_moves |-> f.invalid_moves,
             node_type |-> f.node_type, alpha |-> f.alpha,
             has_legal_moves |-> f.has_legal_moves,
             in_check |-> path = "normal" /\ IsKingInCheck(board, f.player),
             bound |-> IF path \in {"normal", "beta_cutoff"} THEN SavedBound(f)
                       ELSE "none"]
  /\ completed' =
       IF f.call = "root" /\ kind = "value" /\ Conclusive(score, f.window)
       THEN Optional([score |-> score, move |-> move, depth |-> f.depth,
                      pvinfo |-> f.pvinfo])
       ELSE completed

\* lines 245-249: canceled or past the deadline
SearchTimeout ==
  /\ AtPc("entry")
  /\ expired
  /\ ReturnFromSearch(Top, "absent", 0, nullopt, "timeout", FALSE)
  /\ UNCHANGED <<board, driver, ss, expired, num_nodes_, table_hits, buffer_id_>>
  /\ UNCHANGED otherVars

\* lines 250-257: the static evaluation at the horizon
SearchLeaf ==
  /\ Entering
  /\ IsLeaf(Top)
  /\ \E eval \in EvaluateOutcomes(board, Top.maximizing_player, Top.alpha, Top.beta) :
       ReturnFromSearch(Top, "value", eval, nullopt, "leaf", FALSE)
  /\ num_nodes_' = num_nodes_ + 1
  /\ UNCHANGED <<board, driver, ss, expired, table_hits, buffer_id_>>
  /\ UNCHANGED otherVars

\* lines 269-296: an entry of the table cuts the node off
SearchTTCutoff ==
  /\ Entering
  /\ ~IsLeaf(Top)
  /\ table_hits < MaxTableHits
  /\ \E tte \in TTEntries(board, Top.depth) :
       /\ TTCutoff(tte, Top.node_type, Top.ply, Top.depth, Top.alpha, Top.beta)
       /\ ReturnFromSearch(Top, "value", Min(Top.beta, Max(Top.alpha, tte.score)),
                           IF MovePresent(tte.move) THEN Optional(tte.move) ELSE nullopt,
                           "tt_cutoff", FALSE)
  /\ num_nodes_' = num_nodes_ + 1
  /\ table_hits' = table_hits + 1
  /\ UNCHANGED <<board, driver, ss, expired, buffer_id_>>
  /\ UNCHANGED otherVars

\* lines 298-300: the position is in checkmate_positions_
SearchKnownCheckmate ==
  /\ Entering
  /\ ~IsLeaf(Top)
  /\ table_hits < MaxTableHits
  /\ ReturnFromSearch(Top, "value", kMateValue, nullopt, "known_checkmate", FALSE)
  /\ num_nodes_' = num_nodes_ + 1
  /\ table_hits' = table_hits + 1
  /\ UNCHANGED <<board, driver, ss, expired, buffer_id_>>
  /\ UNCHANGED otherVars

\* lines 305-352: a king can be taken; the move buffer partition handed out
\* at line 316 is not released on this path
SearchKingCapture ==
  /\ Entering
  /\ ~IsLeaf(Top)
  /\ KingCaptureMoves(board) # <<>>
  /\ LET move == KingCaptureMoves(board)[1]
         f == [Top EXCEPT !.pvinfo = PVSetBestMove(@, move)]
     IN ReturnFromSearch(f, "value", kMateValue, Optional(move), "king_capture", FALSE)
  /\ ss' = [ss EXCEPT ![Top.ply + 2].killers = <<kNoMove, kNoMove>>]
  /\ num_nodes_' = num_nodes_ + 1
  /\ buffer_id_' = buffer_id_ + 1
  /\ UNCHANGED <<board, driver, expired, table_hits>>
  /\ UNCHANGED otherVars

\* what the probe of line 269 leaves in tte when the node is not cut off
TTProbe(f) ==
  {nullopt} \cup
  (IF table_hits < MaxTableHits
   THEN {Optional(tte) : tte \in
           {e \in TTEntries(board, f.depth) :
              ~TTCutoff(e, f.node_type, f.ply, f.depth, f.alpha, f.beta)}}
   ELSE {})

\* lines 269-399: the node is expanded, moves generated, the picker set up
SearchExpand ==
  /\ Entering
  /\ ~IsLeaf(Top)
  /\ KingCaptureMoves(board) = <<>>
  /\ ~MoveGenAborts(board, kBufferPartitionSize)
  /\ \E tte \in TTProbe(Top) :
       LET f == Top
           tt_move == IF tte # nullopt /\ MovePresent(tte[1].move)
                      THEN Optional(tte[1].move) ELSE nullopt
           pv_move == PVGetBestMove(f.pvinfo)
           hint == IF pv_move # nullopt THEN pv_move ELSE tt_move
           moves == GetPseudoLegalMoves2(board, kBufferPartitionSize)
           pk == InitMovePicker2(moves, PvPointer(moves, hint),
                                 PtrTo(ss[f.ply].killers[1]),
                                 PtrTo(ss[f.ply].killers[2]), TRUE)
       IN /\ stack' = [stack EXCEPT ![Len(stack)] =
                         [f EXCEPT !.pc = "loop", !.tte = tte, !.tt_move = tt_move,
                                   !.pv_move = pv_move, !.picker = pk,
                                   !.player = board.turn_]]
          /\ table_hits' = table_hits + (IF tte # nullopt THEN 1 ELSE 0)
  /\ ss' = [ss EXCEPT ![Top.ply + 2].killers = <<kNoMove, kNoMove>>]
  /\ num_nodes_' = num_nodes_ + 1
  /\ buffer_id_' = buffer_id_ + 1
  /\ UNCHANGED <<board, driver, ret, expired, completed>>
  /\ UNCHANGED otherVars

\* lines 697-777: what follows the move loop, down to the return
FinishSearch(f, path, absent_below) ==
  LET score == IF f.has_legal_moves THEN f.alpha
               ELSE Min(f.beta, Max(f.alpha, -kMateValue))
  IN /\ f.has_legal_moves \/ board.moves_ # <<>>
     /\ ss' = [ss EXCEPT ![f.ply] = UpdateKillers(@, f.best_move)]
     /\ buffer_id_' = buffer_id_ - 1
     /\ ReturnFromSearch(f, "value", score, f.best_move, path, absent_below)

\* line 422: the picker has no move left
SearchLoopEnd ==
  /\ AtPc("loop")
  /\ LET res == SearchNextMove(Top, ss[Top.ply])
     IN /\ res.move = nullptr
        /\ FinishSearch([Top EXCEPT !.picker = res.picker], "normal", Top.saw_absent)
  /\ UNCHANGED <<board, driver, expired, num_nodes_, table_hits>>
  /\ UNCHANGED otherVars

\* lines 426-457: the excluded move is passed over; a move that leaves the
\* mover's own king attacked is made-and-undone and passed over
SearchSkipMove ==
  /\ AtPc("loop")
  /\ LET res == SearchNextMove(Top, ss[Top.ply])
     IN /\ res.move # nullptr
        /\ LET move == res.move[1]
               excluded == MovePresent(ss[Top.ply].excludedMove)
                           /\ MoveEquals(move, ss[Top.ply].excludedMove)
           IN /\ excluded \/ MoverInCheck(MakeMove(board, move), Top.player)
              /\ board' = IF excluded THEN board ELSE UndoMove(MakeMove(board, move))
              /\ stack' = [stack EXCEPT ![Len(stack)] =
                             [Top EXCEPT !.picker = res.picker,
                                         !.invalid_moves = @ + (IF excluded THEN 0 ELSE 1)]]
  /\ UNCHANGED <<driver, ss, ret, expired, num_nodes_, table_hits, buffer_id_, completed>>
  /\ UNCHANGED otherVars

\* lines 459-479: the locals of the loop body once the move is known legal
LegalMoveFrame(f, pk, move) ==
  LET is_pv_move == f.pv_move # nullopt /\ MoveEquals(f.pv_move[1], move)
      pv_child == is_pv_move /\ Len(f.pvinfo) >= 2
  IN [f EXCEPT !.picker = pk, !.has_legal_moves = TRUE, !.move = move,
               !.move_count = @ + 1,
               !.child_pvinfo = IF pv_child THEN PVGetChild(f.pvinfo) ELSE <<>>,
               !.pv_child = pv_child,
               !.r = BaseReduction(f.move_count + 1, f.is_cut_node)]

\* the window of the child search of each stage
ChildAlpha(f, stage) ==
  CASE stage \in {"lmr1", "nonpv"} -> -f.alpha - 1
    [] stage = "lmr2" -> -f.alpha - 50
    [] OTHER -> -f.beta

\* the Search call of `stage` for the move of frame f, on board b
ChildFrame(f, stage, b) ==
  Frame("child", f.ply + 1, ChildDepth(stage, f.depth, f.r),
        IF stage = "full" THEN "PV" ELSE "NonPV",
        ChildAlpha(f, stage), -f.alpha, ~f.maximizing_player,
        IF stage = "lmr2" THEN TRUE ELSE ~f.is_cut_node,
        f.child_pvinfo, b)

\* lines 539-637: the first child search of a move
FirstChild(f, move, b) ==
  LET f1 == [f EXCEPT !.r = RecaptureReduction(f, ss[f.ply - 1], ss[f.ply - 3], move, f.r)]
      f2 == [f1 EXCEPT !.pc = "child", !.stage = FirstStage(f1)]
  IN <<f2, ChildFrame(f2, f2.stage, b)>>

\* lines 500-523: the singular-extension search of the table's move, on the
\* board the move has been made on, at the same ply and stack entry
SearchSingular ==
  /\ AtPc("loop")
  /\ LET res == SearchNextMove(Top, ss[Top.ply])
     IN /\ res.move # nullptr
        /\ LET move == res.move[1]
               made == MakeMove(board, move)
               f == LegalMoveFrame(Top, res.picker, move)
               singular_beta == f.tte[1].score - 50
               singular_depth == f.depth - 1 - (f.depth \div 2) - (f.depth \div 4)
           IN /\ ~(MovePresent(ss[Top.ply].excludedMove)
                   /\ MoveEquals(move, ss[Top.ply].excludedMove))
              /\ ~MoverInCheck(made, Top.player)
              /\ SingularCondition(f, ss[Top.ply], move)
              /\ board' = made
              /\ ss' = [ss EXCEPT ![f.ply].current_move = move,
                                  ![f.ply].excludedMove = move]
              /\ stack' = Append([stack EXCEPT ![Len(stack)] = [f EXCEPT !.pc = "singular"]],
                                 Frame("singular", f.ply, singular_depth, "NonPV",
                                       singular_beta - 1, singular_beta,
                                       f.maximizing_player, ~f.is_cut_node, <<>>, made))
  /\ UNCHANGED <<driver, ret, expired, num_nodes_, table_hits, buffer_id_, completed>>
  /\ UNCHANGED otherVars

\* lines 439-637 without a singular search: the move is made, found legal,
\* and its first child search is called
SearchChild ==
  /\ AtPc("loop")
  /\ LET res == SearchNextMove(Top, ss[Top.ply])
     IN /\ res.move # nullptr
        /\ LET move == res.move[1]
               made == MakeMove(board, move)
               f == LegalMoveFrame(Top, res.picker, move)
               call == FirstChild(f, move, made)
           IN /\ ~(MovePresent(ss[Top.ply].excludedMove)
                   /\ MoveEquals(move, ss[Top.ply].excludedMove))
              /\ ~MoverInCheck(made, Top.player)
              /\ ~SingularCondition(f, ss[Top.ply], move)
              /\ board' = made
              /\ ss' = [ss EXCEPT ![f.ply].current_move = move]
              /\ stack' = Append([stack EXCEPT ![Len(stack)] = call[1]], call[2])
  /\ UNCHANGED <<driver, ret, expired, num_nodes_, table_hits, buffer_id_, completed>>
  /\ UNCHANGED otherVars

\* lines 524-637: the singular search is back; its result is read only when
\* it has one; the first child search of the move is called
SearchSingularReturn ==
  /\ AtPc("singular")
  /\ ret.kind # "none"
  /\ LET singular_beta == Top.tte[1].score - 50
         f == [Top EXCEPT
                 !.r = IF ret.kind = "value" /\ ret.score < singular_beta THEN 0 ELSE @,
                 !.saw_absent = @ \/ ret.kind = "absent",
                 !.singular_absent = ret.kind = "absent"]
         call == FirstChild(f, f.move, board)
     IN stack' = Append([stack EXCEPT ![Len(stack)] = call[1]], call[2])
  /\ ss' = [ss EXCEPT ![Top.ply].excludedMove = kNoMove]
  /\ ret' = kNoReturn
  /\ UNCHANGED <<board, driver, expired, num_nodes_, table_hits, buffer_id_, completed>>
  /\ UNCHANGED otherVars

\* value_and_move_or as the child search left it
ChildResult ==
  IF ret.kind = "value"
  THEN Optional([score |-> ret.score, move |-> ret.move]) ELSE nullopt

\* the caller's frame once a child search is back: a child that was given
\* the PVInfo of pvinfo's own child has written into it
AfterChild(f) ==
  [f EXCEPT !.child_pvinfo = ret.pvinfo,
            !.pvinfo = IF f.pv_child THEN <<f.pvinfo[1]>> \o ret.pvinfo ELSE @,
            !.saw_absent = @ \/ ret.kind = "absent"]

\* lines 565-637: the result of one stage calls for the next search of the move
SearchResearch ==
  /\ AtPc("child")
  /\ ret.kind # "none"
  /\ LET f == AfterChild(Top)
         next == NextStage(f, ChildResult)
     IN /\ next # "none"
        /\ LET f2 == [f EXCEPT !.stage = next]
           IN stack' = Append([stack EXCEPT ![Len(stack)] = f2],
                              ChildFrame(f2, next, board))
  /\ ret' = kNoReturn
  /\ UNCHANGED <<board, driver, ss, expired, num_nodes_, table_hits, buffer_id_, completed>>
  /\ UNCHANGED otherVars

\* lines 641-646: the move is undone; the child had no result, nor has this call
SearchChildAbsent ==
  /\ AtPc("child")
  /\ ret.kind # "none"
  /\ NextStage(AfterChild(Top), ChildResult) = "none"
  /\ ResultMissing(ChildResult)
  /\ board' = UndoSearchedMove(board)
  /\ buffer_id_' = buffer_id_ - 1
  /\ ReturnFromSearch(AfterChild(Top), "absent", 0, nullopt, "timeout", TRUE)
  /\ UNCHANGED <<driver, ss, expired, num_nodes_, table_hits>>
  /\ UNCHANGED otherVars

\* lines 641-660 and 697-777: the move is undone; its score cuts the node off
SearchBetaCutoff ==
  /\ AtPc("child")
  /\ ret.kind # "none"
  /\ LET f == AfterChild(Top)
         v == ChildResult
     IN /\ NextStage(f, v) = "none"
        /\ ~ResultMissing(v)
        /\ ScoreOf(v) >= f.beta
        /\ FinishSearch([f EXCEPT !.alpha = f.beta, !.best_move = Optional(f.move),
                                  !.pvinfo = PVSetChildAndBestMove(f.child_pvinfo, f.move)],
                        "beta_cutoff", f.saw_absent)
  /\ board' = UndoSearchedMove(board)
  /\ UNCHANGED <<driver, expired, num_nodes_, table_hits>>
  /\ UNCHANGED otherVars

\* lines 641-673: the move is undone, alpha and the best move are updated,
\* the loop goes on
SearchMoveDone ==
  /\ AtPc("child")
  /\ ret.kind # "none"
  /\ LET f == AfterChild(Top)
         v == ChildResult
         score == ScoreOf(v)
         better == score > f.alpha \/ f.best_move = nullopt
     IN /\ NextStage(f, v) = "none"
        /\ ~ResultMissing(v)
        /\ score < f.beta
        /\ stack' = [stack EXCEPT ![Len(stack)] =
                       [f EXCEPT !.pc = "loop",
                                 !.alpha = IF score > f.alpha THEN score ELSE @,
                                 !.best_move = IF better THEN Optional(f.move) ELSE @,
                                 !.pvinfo = IF better
                                            THEN PVSetChildAndBestMove(f.child_pvinfo, f.move)
                                            ELSE @]]
  /\ board' = UndoSearchedMove(board)
  /\ ret' = kNoReturn
  /\ UNCHANGED <<driver, ss, expired, num_nodes_, table_hits, buffer_id_, completed>>
  /\ UNCHANGED otherVars

\* SetCanceled(true) by another thread, or the clock reaches the deadline
RequestStop ==
  /\ driver.pc \in {"loop", "search"}
  /\ ~expired
  /\ expired' = TRUE
  /\ UNCHANGED <<board, driver, stack, ss, ret, num_nodes_, table_hits, buffer_id_, completed>>
  /\ UNCHANGED otherVars

-----------------------------------------------------------------------------
(* MakeMoveSingleThread: iterative deepening, with the aspiration window on *)
(* thread 0 when options_.enable_aspiration_window is set                   *)

\* a bookkeeping of the iteration that does not look whether it has a result
RecordIterationUnchecked(d, move_and_value) ==
  [d EXCEPT !.res = IF move_and_value = nullopt THEN @ ELSE move_and_value,
            !.searched_depth = d.next_depth,
            !.next_depth = @ + 1]

\* lines 1224-1229 (1245-1250): after the search of an iteration
RecordIteration(d, move_and_value) ==
  IF move_and_value = nullopt THEN d
  ELSE [d EXCEPT !.res = move_and_value,
                 !.searched_depth = d.next_depth,
                 !.next_depth = @ + 1]

\* lines 1259-1267: what MakeMoveSingleThread returns
DriverResult(d) ==
  IF d.res # nullopt
  THEN Optional([eval |-> IF d.maximizing_player THEN d.res[1].score
                          ELSE -d.res[1].score,
                 move |-> d.res[1].move,
                 depth |-> d.searched_depth])
  ELSE nullopt

\* the thread that runs the aspiration loop of lines 1167-1216
Aspirates(d) == d.aspiration /\ d.thread_id = 0

\* lines 1168-1176: the window of the first search of an iteration
OpenWindow(d) ==
  LET prev == d.average_root_eval_
      delta == IF d.asp_nobs_ > 0
               THEN 50 + ISqrt(CDiv(d.asp_sum_sq_
                                    - CDiv(d.asp_sum_ * d.asp_sum_, d.asp_nobs_),
                                    d.asp_nobs_))
               ELSE 50
  IN [d EXCEPT !.alpha = Max(prev - delta, -kMateValue),
               !.beta = Min(prev + delta, kMateValue),
               !.delta = delta, !.fail_cnt = 0]

\* evaluation * evaluation in int: past 46340 the product overflows, which
\* is undefined; any of these values may come out
Squares(evaluation) ==
  IF Abs(evaluation) <= 46340 THEN {evaluation * evaluation} ELSE {0, 46340 * 46340}

\* lines 1185-1193: the running statistics of the root evaluations; a sum
\* of squares past INT_MAX wraps around
UpdateAspirationStats(d, evaluation, square) ==
  [d EXCEPT !.average_root_eval_ =
               IF d.asp_nobs_ = 0 THEN evaluation
               ELSE CDiv(2 * evaluation + d.average_root_eval_, 3),
            !.asp_nobs_ = @ + 1,
            !.asp_sum_ = @ + evaluation,
            !.asp_sum_sq_ = IF square > 2147483647 - @
                            THEN (@ - 2147483647 - 1) + (square - 2147483647 - 1)
                            ELSE @ + square]

\* a widening that never falls back to the full window
WidenWindowNeverFull(d, evaluation) ==
  LET failed == IF evaluation <= d.alpha
                THEN [d EXCEPT !.beta = CDiv(d.alpha + d.beta, 2),
                               !.alpha = Max(evaluation - d.delta, -kMateValue),
                               !.fail_cnt = @ + 1]
                ELSE [d EXCEPT !.beta = Min(evaluation + d.delta, kMateValue),
                               !.fail_cnt = @ + 1]
  IN [failed EXCEPT !.delta = @ + CDiv(@, 3)]

\* lines 1199-1215: the window after a search that failed low or high
WidenWindow(d, evaluation) ==
  LET failed == IF evaluation <= d.alpha
                THEN [d EXCEPT !.beta = CDiv(d.alpha + d.beta, 2),
                               !.alpha = Max(evaluation - d.delta, -kMateValue),
                               !.fail_cnt = @ + 1]
                ELSE [d EXCEPT !.beta = Min(evaluation + d.delta, kMateValue),
                               !.fail_cnt = @ + 1]
      opened == IF failed.fail_cnt >= 5
                THEN [failed EXCEPT !.alpha = -kMateValue, !.beta = kMateValue]
                ELSE failed
  IN [opened EXCEPT !.delta = @ + CDiv(@, 3)]

\* the root Search call of driver d
RootFrame(d, full_window) ==
  Frame("root", 1, d.next_depth, "Root",
        IF full_window THEN -kMateValue ELSE d.alpha,
        IF full_window THEN kMateValue ELSE d.beta,
        d.maximizing_player, FALSE, d.pv_info, board)

\* lines 1164-1181, 1219, 1238-1243: an iteration starts
DriverIterate ==
  /\ driver.pc = "loop"
  /\ driver.next_depth <= driver.max_depth
  /\ LET d == IF Aspirates(driver) THEN OpenWindow(driver) ELSE driver
     IN /\ driver' = [d EXCEPT !.pc = "search"]
        /\ stack' = <<RootFrame(d, d.aspiration /\ d.thread_id # 0)>>
  /\ UNCHANGED <<board, ss, ret, expired, num_nodes_, table_hits, buffer_id_, completed>>
  /\ UNCHANGED otherVars

\* lines 1164/1238 and 1259-1267: max_depth has been searched
DriverExhausted ==
  /\ driver.pc = "loop"
  /\ driver.next_depth > driver.max_depth
  /\ driver' = [driver EXCEPT !.pc = "done", !.exit = "exhausted",
                              !.result = DriverResult(driver)]
  /\ UNCHANGED <<board, stack, ss, ret, expired, num_nodes_, table_hits, buffer_id_, completed>>
  /\ UNCHANGED otherVars

RootReturned == driver.pc = "search" /\ stack = <<>> /\ ret.kind # "none"

\* lines 1182-1184, 1224-1226 (1245-1247), 1259-1267: the root search hit the
\* deadline or was canceled
DriverInterrupted ==
  /\ RootReturned
  /\ ret.kind = "absent"
  /\ LET d == RecordIteration([driver EXCEPT !.pv_info = ret.pvinfo], nullopt)
     IN driver' = [d EXCEPT !.pc = "done", !.exit = "interrupted",
                            !.result = DriverResult(d)]
  /\ ret' = kNoReturn
  /\ UNCHANGED <<board, stack, ss, expired, num_nodes_, table_hits, buffer_id_, completed>>
  /\ UNCHANGED otherVars

\* lines 1185-1215 and 1179: the value fell outside the aspiration window;
\* the same depth is searched again with another window
DriverRetry ==
  /\ RootReturned
  /\ ret.kind = "value"
  /\ Aspirates(driver)
  /\ Abs(ret.score) # kMateValue
  /\ ret.score <= driver.alpha \/ ret.score >= driver.beta
  /\ \E square \in Squares(ret.score) :
       LET d0 == UpdateAspirationStats([driver EXCEPT !.pv_info = ret.pvinfo],
                                       ret.score, square)
           d == WidenWindow(d0, ret.score)
       IN /\ driver' = d
          /\ stack' = <<RootFrame(d, FALSE)>>
  /\ ret' = kNoReturn
  /\ UNCHANGED <<board, ss, expired, num_nodes_, table_hits, buffer_id_, completed>>
  /\ UNCHANGED otherVars

\* lines 1185-1197/1206-1208 and 1224-1233 (1245-1254): the iteration has its
\* value; a proven win or loss ends the deepening
DriverIterationDone ==
  /\ RootReturned
  /\ ret.kind = "value"
  /\ \/ ~Aspirates(driver)
     \/ Abs(ret.score) = kMateValue
     \/ ret.score > driver.alpha /\ ret.score < driver.beta
  /\ \E square \in Squares(ret.score) :
       LET d0 == [driver EXCEPT !.pv_info = ret.pvinfo]
           d1 == IF Aspirates(driver)
                 THEN UpdateAspirationStats(d0, ret.score, square) ELSE d0
           d == RecordIteration(d1, Optional([score |-> ret.score, move |-> ret.move]))
       IN driver' = IF Abs(ret.score) = kMateValue
                    THEN [d EXCEPT !.pc = "done", !.exit = "mate",
                                   !.result = DriverResult(d)]
                    ELSE [d EXCEPT !.pc = "loop"]
  /\ ret' = kNoReturn
  /\ UNCHANGED <<board, stack, ss, expired, num_nodes_, table_hits, buffer_id_, completed>>
  /\ UNCHANGED otherVars

\* depth of the principal variation a previous call of MakeMove left behind
StaleDepth == 8

\* that principal variation: moves of a line searched for an earlier position
StaleLine == [i \in 1..StaleDepth |-> PseudoLegalMoves(PositionB)[2]]

\* the calls explored: the root board, the principal variation the player
\* holds and the max_depth asked for
SearchStarts ==
  {[board |-> PositionA, pv_info |-> <<>>, max_depth |-> FreshMaxDepth],
   [board |-> PositionB, pv_info |-> <<>>, max_depth |-> 1],
   [board |-> PositionB, pv_info |-> <<>>, max_depth |-> FreshMaxDepth],
   [board |-> PositionB, pv_info |-> StaleLine, max_depth |-> StaleDepth + 1],
   [board |-> PositionC, pv_info |-> StaleLine, max_depth |-> StaleDepth + 1],
   [board |-> PositionE, pv_info |-> <<PseudoLegalMoves(PositionE)[1]>>,
    max_depth |-> FreshMaxDepth],
   [board |-> PositionF, pv_info |-> <<>>, max_depth |-> FreshMaxDepth]}

\* the threads explored: thread 0 without and with the aspiration window,
\* and a helper thread
DriverModes ==
  {[thread_id |-> 0, aspiration |-> FALSE],
   [thread_id |-> 0, aspiration |-> TRUE],
   [thread_id |-> 1, aspiration |-> TRUE]}

\* lines 1147-1160: the locals of MakeMoveSingleThread before its loop
NewDriver(b, config, thread_id, aspiration) ==
  [NoDriver EXCEPT !.pc = "loop", !.thread_id = thread_id,
                   !.aspiration = aspiration, !.max_depth = config.max_depth,
                   !.next_depth = Min(1 + PVGetDepth(config.pv_info), config.max_depth),
                   !.maximizing_player = GetTeam(b.turn_) = "RED_YELLOW",
                   !.pv_info = config.pv_info]

SearchInit ==
  /\ \E config \in SearchStarts, mode \in DriverModes :
       /\ board = config.board
       /\ driver = NewDriver(board, config, mode.thread_id, mode.aspiration)
  /\ last_op = Op("Board", kNoPiece, 0)
  /\ null_depth = 0
  /\ PickerIdle
  /\ ThreadsIdle
  /\ stack = <<>>
  /\ ss = NewStackArray
  /\ ret = kNoReturn
  /\ expired = FALSE
  /\ num_nodes_ = 0
  /\ table_hits = 0
  /\ buffer_id_ = 0
  /\ completed = nullopt

SearchNext ==
  \/ SearchTimeout
  \/ SearchLeaf
  \/ SearchTTCutoff
  \/ SearchKnownCheckmate
  \/ SearchKingCapture
  \/ SearchExpand
  \/ SearchLoopEnd
  \/ SearchSkipMove
  \/ SearchSingular
  \/ SearchChild
  \/ SearchSingularReturn
  \/ SearchResearch
  \/ SearchChildAbsent
  \/ SearchBetaCutoff
  \/ SearchMoveDone
  \/ RequestStop
  \/ DriverIterate
  \/ DriverExhausted
  \/ DriverInterrupted
  \/ DriverRetry
  \/ DriverIterationDone

SearchSpec == SearchInit /\ [][SearchNext]_vars

-----------------------------------------------------------------------------
(* One chain of recursive Search calls with no deadline and no cancel: each *)
(* invocation either returns without a call (a leaf, or no legal move) or   *)
(* makes a legal move and calls the child search of one of its stages       *)

\* the depths of the root call
DescentDepths == {2, 4, 5}

\* legal moves searched before the move that is followed: none (the full
\* search of a PV node's first move) or one (a reduced null-window search)
DescentMoveCounts == {0, 1}

\* the king moves followed, as <<from, to>>: one step out of the corner
\* and back; the moves of the other pieces are all followed
DescentKingMoves ==
  { << <<13, 3>>, <<12, 3>> >>, << <<12, 3>>, <<13, 3>> >>,
    << <<3, 0>>, <<3, 1>> >>, << <<3, 1>>, <<3, 0>> >>,
    << <<0, 10>>, <<1, 10>> >>, << <<1, 10>>, <<0, 10>> >>,
    << <<10, 13>>, <<10, 12>> >>, << <<10, 12>>, <<10, 13>> >> }

FollowedMove(b, move) ==
  GetPiece(b, move.from).type = "KING" => <<move.from, move.to>> \in DescentKingMoves

\* last ply that has an entry of the modelled Stack array
DescentPlyCap == MaxNodes + 4

DescentInit ==
  /\ board = PositionG
  /\ \E depth \in DescentDepths :
       stack = <<Frame("root", 1, depth, "Root", -kMateValue, kMateValue,
                       TRUE, FALSE, <<>>, board)>>
  /\ last_op = Op("Board", kNoPiece, 0)
  /\ null_depth = 0
  /\ PickerIdle
  /\ ThreadsIdle
  /\ driver = NoDriver
  /\ ss = NewStackArray
  /\ ret = kNoReturn
  /\ expired = FALSE
  /\ num_nodes_ = 0
  /\ table_hits = 0
  /\ buffer_id_ = 0
  /\ completed = nullopt

\* line 453: the moves of the position that leave the mover's king safe
LegalMoves(b) ==
  {move \in SeqToSet(PseudoLegalMoves(b)) : ~MoverInCheck(MakeMove(b, move), b.turn_)}

\* lines 251-257 and 420-457/703: the invocation makes no call
DescentBottom ==
  /\ AtPc("entry")
  /\ IsLeaf(Top) \/ LegalMoves(board) = {}
  /\ stack' = [stack EXCEPT ![Len(stack)].pc = "returned"]
  /\ UNCHANGED <<board, driver, ss, ret, expired, num_nodes_, table_hits, buffer_id_,
                 completed>>
  /\ UNCHANGED otherVars

\* lines 420-638: a legal move is made and the first child search of the
\* move is called
DescentChild ==
  /\ AtPc("entry")
  /\ ~IsLeaf(Top)
  /\ Top.ply < DescentPlyCap
  /\ \E move \in SeqToSet(PseudoLegalMoves(board)), count \in DescentMoveCounts :
       \E made \in {MakeMove(board, move)} :
         LET f == LegalMoveFrame([Top EXCEPT !.move_count = count], Top.picker, move)
         IN /\ FollowedMove(board, move)
            /\ ~MoverInCheck(made, Top.player)
            /\ \E call \in {FirstChild(f, move, made)} :
                 stack' = Append([stack EXCEPT ![Len(stack)] = call[1]], call[2])
            /\ board' = made
            /\ ss' = [ss EXCEPT ![f.ply].current_move = move]
  /\ num_nodes_' = num_nodes_ + 1
  /\ UNCHANGED <<driver, ret, expired, table_hits, buffer_id_, completed>>
  /\ UNCHANGED otherVars

DescentNext ==
  \/ DescentBottom
  \/ DescentChild

\* an invocation that can go on does go on
DescentSpec ==
  /\ DescentInit
  /\ [][DescentNext]_vars
  /\ WF_vars(DescentNext)

-----------------------------------------------------------------------------
(* The aspiration loop of thread 0 by itself: the root Search is what it    *)
(* hands back, the absent result or an evaluation between -kMateValue and   *)
(* kMateValue                                                               *)

\* the values of max_depth explored
AspDepths == {1, 2}

\* the evaluations a root search with the window of d hands back: a proven
\* loss or win, the lower bound (fail low), the upper bound (fail high), a
\* value inside the window
AspEvaluations(d) ==
  {-kMateValue, kMateValue, d.alpha, d.beta, CDiv(d.alpha + d.beta, 2)}

aspFrame ==
  <<board, stack, ss, ret, expired, num_nodes_, table_hits, buffer_id_, completed>>

AspInit ==
  /\ board = PositionA
  /\ \E max_depth \in AspDepths :
       driver = NewDriver(board, [pv_info |-> <<>>, max_depth |-> max_depth], 0, TRUE)
  /\ last_op = Op("Board", kNoPiece, 0)
  /\ null_depth = 0
  /\ PickerIdle
  /\ ThreadsIdle
  /\ stack = <<>>
  /\ ss = NewStackArray
  /\ ret = kNoReturn
  /\ expired = FALSE
  /\ num_nodes_ = 0
  /\ table_hits = 0
  /\ buffer_id_ = 0
  /\ completed = nullopt

\* lines 1164-1181: an iteration starts with the window around the average
AspIterate ==
  /\ driver.pc = "loop"
  /\ driver.next_depth <= driver.max_depth
  /\ driver' = [OpenWindow(driver) EXCEPT !.pc = "search"]
  /\ UNCHANGED aspFrame
  /\ UNCHANGED otherVars

\* lines 1164 and 1259-1267: max_depth has been searched
AspExhausted ==
  /\ driver.pc = "loop"
  /\ driver.next_depth > driver.max_depth
  /\ driver' = [driver EXCEPT !.pc = "done", !.exit = "exhausted",
                              !.result = DriverResult(driver)]
  /\ UNCHANGED aspFrame
  /\ UNCHANGED otherVars

\* lines 1182-1184, 1224-1226: the root search hit the deadline
AspInterrupted ==
  /\ driver.pc = "search"
  /\ LET d == RecordIteration(driver, nullopt)
     IN driver' = [d EXCEPT !.pc = "done", !.exit = "interrupted",
                            !.result = DriverResult(d)]
  /\ UNCHANGED aspFrame
  /\ UNCHANGED otherVars

\* lines 1185-1215 and 1179: the evaluation fell outside the window; the
\* same depth is searched again
AspRetry ==
  /\ driver.pc = "search"
  /\ \E evaluation \in AspEvaluations(driver) :
       /\ Abs(evaluation) # kMateValue
       /\ evaluation <= driver.alpha \/ evaluation >= driver.beta
       /\ \E square \in Squares(evaluation) :
            driver' = WidenWindow(UpdateAspirationStats(driver, evaluation, square),
                                  evaluation)
  /\ UNCHANGED aspFrame
  /\ UNCHANGED otherVars

\* lines 1185-1197/1206-1208 and 1224-1233: the iteration has its value
AspIterationDone ==
  /\ driver.pc = "search"
  /\ \E evaluation \in AspEvaluations(driver) :
       /\ \/ Abs(evaluation) = kMateValue
          \/ evaluation > driver.alpha /\ evaluation < driver.beta
       /\ \E square \in Squares(evaluation) :
            LET d1 == UpdateAspirationStats(driver, evaluation, square)
                d == RecordIteration(d1, Optional([score |-> evaluation,
                                                   move |-> nullopt]))
            IN driver' = IF Abs(evaluation) = kMateValue
                         THEN [d EXCEPT !.pc = "done", !.exit = "mate",
                                        !.result = DriverResult(d)]
                         ELSE [d EXCEPT !.pc = "loop"]
  /\ UNCHANGED aspFrame
  /\ UNCHANGED otherVars

AspNext ==
  \/ AspIterate
  \/ AspExhausted
  \/ AspInterrupted
  \/ AspRetry
  \/ AspIterationDone

AspirationSpec == AspInit /\ [][AspNext]_vars

-----------------------------------------------------------------------------
(* AlphaBetaPlayer::MakeMove with its helper threads.  Each thread runs     *)
(* MakeMoveSingleThread; of a Search invocation only the control flow is    *)
(* kept: the test of canceled_ and the deadline at entry, the calls it      *)
(* makes, and whether it hands back a value or the absent result.  A frame  *)
(* of a thread is the place its invocation has reached: "entry", "body",    *)
(* "wait_singular", "wait_child".  Thread 0's search enters at most         *)
(* MaxThreadNodes nodes that make calls and then runs out of depth; a       *)
(* helper's search and its deepening are not limited.                       *)

\* SetCanceled(bool): canceled_ after the call
SetCanceled(canceled) == canceled

\* a test at entry that does not look at canceled_
StopRequestedDeadlineOnly(canceled, past_deadline) == past_deadline

\* lines 245-247: canceled_ || (deadline.has_value() && now >= *deadline)
StopRequested(canceled, past_deadline) == canceled \/ past_deadline

ThreadIds == 0..(num_threads - 1)

Helpers == 1..(num_threads - 1)

\* each thread's board copy and search stack are left out of the
\* specification of the threads, which follows the calls and returns only
NotModelled == <<>>

\* a thread before std::thread runs it (thread 0: before line 1126)
NewThread ==
  [pc |-> "unstarted", frames |-> <<>>, ret |-> "none", nodes |-> 0,
   saw_canceled |-> FALSE]

TopFrame(i) == threads[i].frames[Len(threads[i].frames)]

InFrame(i, pc) ==
  /\ i \in ThreadIds
  /\ threads[i].pc = "running"
  /\ threads[i].frames # <<>>
  /\ TopFrame(i) = pc

Pop(frames) == SubSeq(frames, 1, Len(frames) - 1)

SetTopFrame(frames, pc) == [frames EXCEPT ![Len(frames)] = pc]

\* thread i may start one more Search that makes calls
MayCall(i) == i # 0 \/ threads[i].nodes < MaxThreadNodes

threadFrame ==
  <<board, last_op, null_depth, pickerVars, searchVars, tableVars, historyVars>>

\* lines 1088-1126: the flag is cleared, the helpers are started, thread 0
\* starts its own search
MainStart ==
  /\ main_pc = "start"
  /\ canceled_' = SetCanceled(FALSE)
  /\ threads' = [i \in ThreadIds |-> [NewThread EXCEPT !.pc = "started"]]
  /\ main_pc' = "search"
  /\ UNCHANGED <<deadline_passed, joined, num_threads>>
  /\ UNCHANGED threadFrame

\* lines 1126-1128: MakeMoveSingleThread(0, ...) is back; SetCanceled(true)
MainCancel ==
  /\ main_pc = "search"
  /\ threads[0].pc = "done"
  /\ canceled_' = SetCanceled(TRUE)
  /\ main_pc' = "join"
  /\ UNCHANGED <<deadline_passed, threads, joined, num_threads>>
  /\ UNCHANGED threadFrame

\* lines 1129-1131: thread->join() of the next helper, in order of creation
MainJoin ==
  /\ main_pc = "join"
  /\ \E i \in Helpers :
       /\ i \notin joined
       /\ \A j \in Helpers : j < i => j \in joined
       /\ threads[i].pc = "done"
       /\ joined' = joined \cup {i}
  /\ UNCHANGED <<main_pc, canceled_, deadline_passed, threads, num_threads>>
  /\ UNCHANGED threadFrame

\* lines 1133-1138: every helper is joined; the flag is cleared; return
MainReturn ==
  /\ main_pc = "join"
  /\ joined = Helpers
  /\ canceled_' = SetCanceled(FALSE)
  /\ main_pc' = "returned"
  /\ UNCHANGED <<deadline_passed, threads, joined, num_threads>>
  /\ UNCHANGED threadFrame

\* the clock reaches the deadline of the call
DeadlinePasses ==
  /\ main_pc = "search"
  /\ ~deadline_passed
  /\ deadline_passed' = TRUE
  /\ UNCHANGED <<main_pc, canceled_, threads, joined, num_threads>>
  /\ UNCHANGED threadFrame

ThreadFrameUnchanged ==
  /\ UNCHANGED <<main_pc, canceled_, deadline_passed, joined, num_threads>>
  /\ UNCHANGED threadFrame

\* lines 1150 and 1164/1238: next_depth <= max_depth, which holds the first
\* time round; the root Search is called
ThreadIterate(i) ==
  /\ i \in ThreadIds
  /\ threads[i].pc \in {"started", "running"}
  /\ threads[i].frames = <<>>
  /\ threads[i].ret = "none"
  /\ threads[i].pc = "started" \/ MayCall(i)
  /\ threads' = [threads EXCEPT ![i].pc = "running", ![i].frames = <<"entry">>]
  /\ ThreadFrameUnchanged

\* lines 1164/1238 and 1259-1267: max_depth is searched, the thread returns
ThreadExhausted(i) ==
  /\ i \in ThreadIds
  /\ threads[i].pc = "running"
  /\ threads[i].frames = <<>>
  /\ threads[i].ret = "none"
  /\ threads' = [threads EXCEPT ![i].pc = "done"]
  /\ ThreadFrameUnchanged

\* lines 1224-1233 (1245-1254): the root Search is back; without a result,
\* or with a proven win or loss, the thread returns
ThreadSearchReturned(i) ==
  /\ i \in ThreadIds
  /\ threads[i].pc = "running"
  /\ threads[i].frames = <<>>
  /\ threads[i].ret # "none"
  /\ \E mate \in BOOLEAN :
       threads' = [threads EXCEPT
                     ![i].ret = "none",
                     ![i].pc = IF threads[i].ret = "absent" \/ mate
                               THEN "done" ELSE @]
  /\ ThreadFrameUnchanged

\* lines 245-249: the call returns the absent result at its entry
ThreadStopAtEntry(i) ==
  /\ InFrame(i, "entry")
  /\ StopRequested(canceled_, deadline_passed)
  /\ threads' = [threads EXCEPT ![i].frames = Pop(@), ![i].ret = "absent",
                                ![i].saw_canceled = @ \/ (i # 0 /\ canceled_)]
  /\ ThreadFrameUnchanged

\* line 250: the call goes on into its body
ThreadEnter(i) ==
  /\ InFrame(i, "entry")
  /\ ~StopRequested(canceled_, deadline_passed)
  /\ threads' = [threads EXCEPT
                   ![i].frames = SetTopFrame(@, "body"),
                   ![i].nodes = IF i = 0 /\ @ < MaxThreadNodes THEN @ + 1 ELSE @]
  /\ ThreadFrameUnchanged

\* lines 552-637: a child Search is called for the move
ThreadCallChild(i) ==
  /\ InFrame(i, "body")
  /\ MayCall(i)
  /\ Len(threads[i].frames) < MaxFrames
  /\ threads' = [threads EXCEPT
                   ![i].frames = Append(SetTopFrame(@, "wait_child"), "entry")]
  /\ ThreadFrameUnchanged

\* lines 519-523: the singular-extension Search is called for the move
ThreadCallSingular(i) ==
  /\ InFrame(i, "body")
  /\ MayCall(i)
  /\ Len(threads[i].frames) < MaxFrames
  /\ threads' = [threads EXCEPT
                   ![i].frames = Append(SetTopFrame(@, "wait_singular"), "entry")]
  /\ ThreadFrameUnchanged

\* lines 524-637: the singular search is back, with a result or without;
\* the child Search of the move is called
ThreadSingularBack(i) ==
  /\ InFrame(i, "wait_singular")
  /\ threads[i].ret # "none"
  /\ threads' = [threads EXCEPT
                   ![i].frames = Append(SetTopFrame(@, "wait_child"), "entry"),
                   ![i].ret = "none"]
  /\ ThreadFrameUnchanged

\* lines 641-673: the child is back with a value; the move loop goes on
ThreadChildBack(i) ==
  /\ InFrame(i, "wait_child")
  /\ threads[i].ret = "value"
  /\ threads' = [threads EXCEPT ![i].frames = SetTopFrame(@, "body"),
                                ![i].ret = "none"]
  /\ ThreadFrameUnchanged

\* lines 643-646: the child is back without a result; so is this call
ThreadChildAbsent(i) ==
  /\ InFrame(i, "wait_child")
  /\ threads[i].ret = "absent"
  /\ threads' = [threads EXCEPT ![i].frames = Pop(@)]
  /\ ThreadFrameUnchanged

\* lines 254, 289, 300, 351, 777: the call returns a value
ThreadReturn(i) ==
  /\ InFrame(i, "body")
  /\ threads' = [threads EXCEPT ![i].frames = Pop(@), ![i].ret = "value"]
  /\ ThreadFrameUnchanged

ThreadStep(i) ==
  \/ ThreadIterate(i)
  \/ ThreadExhausted(i)
  \/ ThreadSearchReturned(i)
  \/ ThreadStopAtEntry(i)
  \/ ThreadEnter(i)
  \/ ThreadCallChild(i)
  \/ ThreadCallSingular(i)
  \/ ThreadSingularBack(i)
  \/ ThreadChildBack(i)
  \/ ThreadChildAbsent(i)
  \/ ThreadReturn(i)

MainNext ==
  \/ MainStart
  \/ MainCancel
  \/ MainJoin
  \/ MainReturn

ThreadsInit ==
  /\ board = NotModelled
  /\ last_op = Op("Board", kNoPiece, 0)
  /\ null_depth = 0
  /\ PickerIdle
  /\ driver = NoDriver
  /\ stack = <<>>
  /\ ss = NotModelled
  /\ ret = kNoReturn
  /\ expired = FALSE
  /\ num_nodes_ = 0
  /\ table_hits = 0
  /\ buffer_id_ = 0
  /\ completed = nullopt
  /\ main_pc = "start"
  /\ canceled_ \in BOOLEAN
  /\ deadline_passed = FALSE
  /\ num_threads \in 1..MaxThreads
  /\ threads = [i \in 0..(num_threads - 1) |-> NewThread]
  /\ joined = {}
  /\ TableIdle
  /\ HistoryIdle

ThreadsNext ==
  \/ MainNext
  \/ DeadlinePasses
  \/ \E i \in 0..(MaxThreads - 1) : ThreadStep(i)

\* a thread that can take a step is scheduled in the end, and so is the
\* thread that called MakeMove; the clock owes nothing
ThreadsSpec ==
  /\ ThreadsInit
  /\ [][ThreadsNext]_vars
  /\ WF_vars(MainNext)
  /\ \A i \in 0..(MaxThreads - 1) : WF_vars(ThreadStep(i))

-----------------------------------------------------------------------------
(* The threads of a search and the one transposition table they share:     *)
(* what a Search invocation does with the table, from its probe at entry   *)
(* to its Save at exit, and the Saves of the Searches it calls in between   *)

\* the depths of the Searches followed; the Searches they call are less deep
NodeDepths == {8, 9}

Probe(t) == probes[t]

\* the locals of a thread after a step that read nothing through the pointer
NothingRead(probe) == [probe EXCEPT !.used = "none", !.read = kZeroEntry]

\* the locals of a thread past its move loop
PastLoop(probe) ==
  [probe EXCEPT !.tte = nullptr, !.tt_hit = FALSE, !.tt_move = nullopt]

MutexFree(key) == a_mutexes_[MutexOf(SlotOf(key))] = 0

tableFrame ==
  <<boardVars, pickerVars, searchVars, main_pc, canceled_, deadline_passed,
    num_threads, threads, joined, historyVars>>

\* TranspositionTable::Save(key, ...) called by thread t, lines 32-37: the
\* mutex is taken and the condition decided
SaveBegin(t, probe, key, arg, next) ==
  LET n == SlotOf(key)
      replaces == SaveReplaces(hash_table_[n], key, arg.depth, arg.bound)
  IN /\ MutexFree(key)
     /\ a_mutexes_' = [a_mutexes_ EXCEPT ![MutexOf(n)] = t]
     /\ probes' = [probes EXCEPT ![t] =
                     [probe EXCEPT !.save_key = key,
                                   !.save_arg = Optional(arg),
                                   !.save_then = next,
                                   !.pc = IF replaces THEN "save_first"
                                          ELSE "save_kept"]]
     /\ UNCHANGED hash_table_

\* lines 267-269 and TranspositionTable::Get, lines 19-27: a Search is
\* entered on a position with hash key `key`; the slot is compared under its
\* mutex, which is released when the pointer is returned
NodeEntry(t) ==
  /\ t \in Followed
  /\ Probe(t).pc = "idle"
  /\ \E key \in Keys, depth \in NodeDepths :
       /\ MutexFree(key)
       /\ probes' = [probes EXCEPT ![t] =
                       [NoProbe EXCEPT !.pc = "probe", !.key = key, !.depth = depth,
                                       !.tte = Get(hash_table_, key)]]
  /\ UNCHANGED <<hash_table_, a_mutexes_>>
  /\ UNCHANGED tableFrame

\* lines 270-296: with an entry whose key is the node's, the early cutoff
\* returns (the window and the node type decide), or the move and is_pv of
\* the entry are kept; the fields are read through the pointer
ProbeEntry(t) ==
  /\ Probe(t).pc = "probe"
  /\ IF Probe(t).tte = nullptr \/ hash_table_[Probe(t).tte[1]].key # Probe(t).key
     THEN probes' = [probes EXCEPT ![t].pc = "loop"]
     ELSE LET entry == hash_table_[Probe(t).tte[1]]
          IN \E cutoff \in BOOLEAN :
               /\ cutoff => entry.depth >= Probe(t).depth
               /\ probes' = [probes EXCEPT ![t] =
                    IF cutoff
                    THEN [PastLoop(@) EXCEPT !.read = entry, !.used = "probe",
                                             !.pc = "idle"]
                    ELSE [@ EXCEPT !.tt_hit = TRUE, !.read = entry,
                                   !.used = "probe",
                                   !.tt_move = IF MovePresent(entry.move)
                                               THEN Optional(entry.move)
                                               ELSE nullopt,
                                   !.pc = "eval"]]
  /\ UNCHANGED <<hash_table_, a_mutexes_>>
  /\ UNCHANGED tableFrame

\* lines 365-370: after a hit the static evaluation is the entry's eval
EvalReuse(t) ==
  /\ Probe(t).pc = "eval"
  /\ probes' = [probes EXCEPT ![t].read = hash_table_[Probe(t).tte[1]],
                              ![t].used = "eval",
                              ![t].pc = "loop"]
  /\ UNCHANGED <<hash_table_, a_mutexes_>>
  /\ UNCHANGED tableFrame

\* lines 552-637: a move searched before the table move calls a child
\* Search, on another position and less deep, which saves at its exit
ChildSave(t) ==
  /\ Probe(t).pc = "loop"
  /\ \E key \in Keys \ {Probe(t).key}, arg \in SaveArgs :
       /\ arg.depth < Probe(t).depth
       /\ SaveBegin(t, NothingRead(Probe(t)), key, arg, "loop")
  /\ UNCHANGED tableFrame

\* lines 500-508: the move is the table move; score, bound and depth of the
\* entry are read through the pointer kept since the probe
SingularCheck(t) ==
  /\ Probe(t).pc = "loop"
  /\ Probe(t).tt_move # nullopt
  /\ Probe(t).depth >= 8
  /\ Probe(t).tte # nullptr
  /\ probes' = [probes EXCEPT ![t] =
                 [PastLoop(@) EXCEPT !.read = hash_table_[Probe(t).tte[1]],
                                     !.used = "singular",
                                     !.pc = "exit"]]
  /\ UNCHANGED <<hash_table_, a_mutexes_>>
  /\ UNCHANGED tableFrame

\* line 423: the move loop ends without the table move coming up
LoopEnd(t) ==
  /\ Probe(t).pc = "loop"
  /\ probes' = [probes EXCEPT ![t] = [NothingRead(PastLoop(@)) EXCEPT !.pc = "exit"]]
  /\ UNCHANGED <<hash_table_, a_mutexes_>>
  /\ UNCHANGED tableFrame

\* lines 741-743: the node saves its entry
ExitSave(t) ==
  /\ Probe(t).pc = "exit"
  /\ \E arg \in SaveArgs :
       /\ arg.depth = Probe(t).depth
       /\ SaveBegin(t, NothingRead(Probe(t)), Probe(t).key, arg, "idle")
  /\ UNCHANGED tableFrame

\* lines 741-743 in a thread that is not followed: a Search of it saves
OtherSave(t) ==
  /\ t \notin Followed
  /\ Probe(t).pc = "idle"
  /\ \E key \in Keys, arg \in SaveArgs : SaveBegin(t, Probe(t), key, arg, "idle")
  /\ UNCHANGED tableFrame

\* TranspositionTable::Save, lines 38-44: key, depth and move are written
SaveWrite(t) ==
  /\ Probe(t).pc = "save_first"
  /\ hash_table_' = [hash_table_ EXCEPT ![SlotOf(Probe(t).save_key)] =
                       SaveFirstFields(@, Probe(t).save_key, Probe(t).save_arg[1])]
  /\ probes' = [probes EXCEPT ![t].pc = "save_last"]
  /\ UNCHANGED a_mutexes_
  /\ UNCHANGED tableFrame

\* TranspositionTable::Save, lines 45-50: score, eval, bound and is_pv are
\* written, unless the condition was false, and the mutex is released
SaveEnd(t) ==
  /\ Probe(t).pc \in {"save_last", "save_kept"}
  /\ LET n == SlotOf(Probe(t).save_key)
     IN /\ a_mutexes_' = [a_mutexes_ EXCEPT ![MutexOf(n)] = 0]
        /\ hash_table_' = IF Probe(t).pc = "save_last"
                          THEN [hash_table_ EXCEPT
                                  ![n] = SaveLastFields(@, Probe(t).save_arg[1])]
                          ELSE hash_table_
        /\ probes' = [probes EXCEPT ![t] =
                        IF Probe(t).save_then = "idle" THEN NoProbe
                        ELSE [@ EXCEPT !.pc = Probe(t).save_then,
                                       !.save_arg = nullopt,
                                       !.save_key = 0,
                                       !.save_then = "idle"]]
  /\ UNCHANGED tableFrame

TableStep(t) ==
  \/ NodeEntry(t)
  \/ ProbeEntry(t)
  \/ EvalReuse(t)
  \/ ChildSave(t)
  \/ SingularCheck(t)
  \/ LoopEnd(t)
  \/ ExitSave(t)
  \/ OtherSave(t)
  \/ SaveWrite(t)
  \/ SaveEnd(t)

TableInit ==
  /\ board = NotModelled
  /\ last_op = Op("Board", kNoPiece, 0)
  /\ null_depth = 0
  /\ PickerIdle
  /\ driver = NoDriver
  /\ stack = <<>>
  /\ ss = NotModelled
  /\ ret = kNoReturn
  /\ expired = FALSE
  /\ num_nodes_ = 0
  /\ table_hits = 0
  /\ buffer_id_ = 0
  /\ completed = nullopt
  /\ ThreadsIdle

TableNext == \E t \in TableThreads : TableStep(t)

TableSpec == TableInit /\ [][TableNext]_vars

-----------------------------------------------------------------------------
(* The threads of a search and the history tables they share: a thread is   *)
(* in UpdateStats for the best move of a node, or in the scoring loop of    *)
(* GetNextMove2 for one of the remaining moves                              *)

HistoryUse(t) == history_threads[t]

historyFrame ==
  <<boardVars, pickerVars, searchVars, main_pc, canceled_, deadline_passed,
    num_threads, threads, joined, tableVars>>

\* repeated entry << bonus, once per earlier ply with a current move
RECURSIVE ContinuationAdds(_, _, _)
ContinuationAdds(entry, bonus, plies) ==
  IF plies = 0 THEN entry
  ELSE ContinuationAdds(StatsEntryAdd(entry, bonus), bonus, plies - 1)

\* player.cc 781-792: UpdateStats is entered and takes the mutex of the move
UpdateStatsLock(t) ==
  /\ HistoryUse(t).pc = "idle"
  /\ \E input \in HistoryInputs, depth \in 1..MaxHistoryDepth,
        fail_high \in BOOLEAN, plies \in HistoryPlies :
       LET m == HeuristicMutexOf(input.move)
           cell == UpdateStatsCell(input.piece_type, input.move)
       IN /\ heuristic_mutexes_[m] = 0
          /\ history_heuristic[cell] < MaxHistory
          /\ heuristic_mutexes_' = [heuristic_mutexes_ EXCEPT ![m] = t]
          /\ history_threads' =
               [history_threads EXCEPT ![t] =
                  [NoHistoryUse EXCEPT !.pc = "history_add", !.input = input,
                                       !.bonus = Bonus(depth, fail_high),
                                       !.plies = plies, !.cell = cell]]
  /\ UNCHANGED <<history_heuristic, dummy_history, mtx>>
  /\ UNCHANGED historyFrame

\* player.cc 793-794: history_heuristic[...] += bonus
HistoryAdd(t) ==
  /\ HistoryUse(t).pc = "history_add"
  /\ history_heuristic' =
       [history_heuristic EXCEPT ![HistoryUse(t).cell] = @ + HistoryUse(t).bonus]
  /\ history_threads' = [history_threads EXCEPT ![t].pc = "continuation_add"]
  /\ UNCHANGED <<dummy_history, heuristic_mutexes_, mtx>>
  /\ UNCHANGED historyFrame

\* player.cc 795-796 and 798-810: UpdateContinuationHistories, then the
\* lock_guard of UpdateStats lets the mutex go
ContinuationAdd(t) ==
  /\ HistoryUse(t).pc = "continuation_add"
  /\ LET u == HistoryUse(t)
         cell == ContinuationCell(u.input.piece_type, u.input.move)
     IN dummy_history' =
          [dummy_history EXCEPT ![cell] = ContinuationAdds(@, u.bonus, u.plies)]
  /\ heuristic_mutexes_' =
       [heuristic_mutexes_ EXCEPT ![HeuristicMutexOf(HistoryUse(t).input.move)] = 0]
  /\ history_threads' = [history_threads EXCEPT ![t] = NoHistoryUse]
  /\ UNCHANGED <<history_heuristic, mtx>>
  /\ UNCHANGED historyFrame

\* move_picker2.h 173-176: the scoring loop comes to a move and takes mtx
ScoreLock(t) ==
  /\ HistoryUse(t).pc = "idle"
  /\ mtx = 0
  /\ mtx' = t
  /\ \E input \in HistoryInputs :
       history_threads' =
         [history_threads EXCEPT ![t] =
            [NoHistoryUse EXCEPT !.pc = "history_read", !.input = input,
                                 !.cell = PickerCell(input.piece_type, input.move)]]
  /\ UNCHANGED <<history_heuristic, dummy_history, heuristic_mutexes_>>
  /\ UNCHANGED historyFrame

\* move_picker2.h 177-179: the history value is read, mtx let go; a read
\* outside the array gives whatever is there
ScoreHistory(t) ==
  /\ HistoryUse(t).pc = "history_read"
  /\ \E value \in IF InHistoryArray(HistoryUse(t).cell)
                   THEN {history_heuristic[HistoryUse(t).cell]}
                   ELSE StrayValues :
       history_threads' =
         [history_threads EXCEPT ![t].pc = "continuation_read",
                                 ![t].hist_value = value]
  /\ mtx' = 0
  /\ UNCHANGED <<history_heuristic, dummy_history, heuristic_mutexes_>>
  /\ UNCHANGED historyFrame

\* move_picker2.h 187-206: the continuation history value is read
ScoreContinuation(t) ==
  /\ HistoryUse(t).pc = "continuation_read"
  /\ LET u == HistoryUse(t)
     IN history_threads' =
          [history_threads EXCEPT
             ![t].pc = "scored",
             ![t].cont_value =
                dummy_history[ContinuationCell(u.input.piece_type, u.input.move)]]
  /\ UNCHANGED <<history_heuristic, dummy_history, heuristic_mutexes_, mtx>>
  /\ UNCHANGED historyFrame

\* move_picker2.h 208-230: the score of the move is put together; the loop
\* goes on
ScoreDone(t) ==
  /\ HistoryUse(t).pc = "scored"
  /\ history_threads' = [history_threads EXCEPT ![t] = NoHistoryUse]
  /\ UNCHANGED <<history_heuristic, dummy_history, heuristic_mutexes_, mtx>>
  /\ UNCHANGED historyFrame

HistoryStep(t) ==
  \/ UpdateStatsLock(t)
  \/ HistoryAdd(t)
  \/ ContinuationAdd(t)
  \/ ScoreLock(t)
  \/ ScoreHistory(t)
  \/ ScoreContinuation(t)
  \/ ScoreDone(t)

\* the tables as the constructor leaves them (player.cc 62-66)
HistoryInit == TableInit

HistoryNext == \E t \in HistoryThreads : HistoryStep(t)

HistorySpec == HistoryInit /\ [][HistoryNext]_vars

-----------------------------------------------------------------------------
(* Properties of the board *)

PieceSet(b, color) == SeqToSet(b.piece_list_[color])

\* what MakeMove followed by UndoMove is to give back, castling rights aside
SameBoard(b1, b2) ==
  /\ b1.location_to_piece_ = b2.location_to_piece_
  /\ \A c \in Colors : PieceSet(b1, c) = PieceSet(b2, c)
  /\ \A c \in Colors : Len(b1.piece_list_[c]) = Len(b2.piece_list_[c])
  /\ b1.king_locations_ = b2.king_locations_
  /\ b1.hash_key_ = b2.hash_key_
  /\ b1.piece_evaluation_ = b2.piece_evaluation_
  /\ b1.player_piece_evaluations_ = b2.player_piece_evaluations_
  /\ b1.turn_ = b2.turn_
  /\ Len(b1.moves_) = Len(b2.moves_)

\* C1: in every reachable board, each pseudo-legal move of the side to move,
\* made and then undone, gives back the grid, the piece lists (as sets), the
\* king locations, the hash key, both material evaluations, the turn and the
\* length of the move history.
C1_MakeUndoInverse ==
  \A move \in SeqToSet(PseudoLegalMoves(board)) :
    LET made == MakeMove(board, move)
    IN /\ ~made.fatal_
       /\ made.moves_ # <<>>
       /\ SameBoard(UndoMove(made), board)

\* a king capture has been made and undone on the board
C1_Witness ==
  /\ last_op.op = "UndoMove"
  /\ last_op.capture.type = "KING"
  /\ \A c \in Colors : LocPresent(board.king_locations_[c])
  /\ Len(PseudoLegalMoves(board)) > 0

\* the hash recomputed from the grid and the turn
GridHash(b) ==
  {PieceHash(GetPiece(b, loc), loc) :
     loc \in {l \in Rows \X Rows : Present(GetPiece(b, l))}}
  \cup {TurnHash(b.turn_)}

\* C2: after any sequence of MakeMove, UndoMove, MakeNullMove and
\* UndoNullMove the incremental hash key equals the key computed from
\* scratch (InitializeHash on a cleared key, and likewise over the grid).
C2_HashConsistent ==
  /\ board.hash_key_ = InitializeHash([board EXCEPT !.hash_key_ = {}]).hash_key_
  /\ board.hash_key_ = GridHash(board)

\* a null move is outstanding on top of a capture
C2_Witness ==
  /\ last_op.op = "MakeNullMove"
  /\ \E k \in 1..Len(board.moves_) : Present(board.moves_[k].standard_capture)

\* C3: MakeMove followed by UndoMove leaves every colour's castling rights
\* as they were, also for a king move of a colour that holds a right.
C3_CastlingRightsRestored ==
  \A move \in SeqToSet(PseudoLegalMoves(board)) :
    UndoMove(MakeMove(board, move)).castling_rights_ = board.castling_rights_

\* C11: on every reachable board each occupied square has exactly one entry
\* with its location and piece in the piece list of the piece's colour, each
\* entry of a list lies on a square holding that piece of that colour, and
\* no list holds two entries for one square.
C11_GridListBijection ==
  /\ ~board.fatal_
  /\ \A loc \in Rows \X Rows :
       LET piece == GetPiece(board, loc)
       IN Present(piece) =>
            Cardinality({i \in 1..Len(board.piece_list_[piece.color]) :
                           board.piece_list_[piece.color][i] = PlacedPiece(loc, piece)}) = 1
  /\ \A c \in Colors : \A i \in 1..Len(board.piece_list_[c]) :
       LET pp == board.piece_list_[c][i]
       IN /\ pp.piece.color = c
          /\ GetPiece(board, pp.loc) = pp.piece
          /\ \A j \in 1..Len(board.piece_list_[c]) :
               board.piece_list_[c][j].loc = pp.loc => j = i

\* a capture stands on the board on top of an earlier move
C11_Witness ==
  /\ last_op.op = "MakeMove"
  /\ Present(last_op.capture)
  /\ Len(board.moves_) = 2

\* C12: right after a MakeMove in which the king of a colour moves, and
\* right after one in which the king of a colour is captured, that colour's
\* castling rights are {false, false}.
C12_RightsClearedWithKing ==
  \A move \in SeqToSet(PseudoLegalMoves(board)) :
    LET made == MakeMove(board, move)
        piece == GetPiece(board, move.from)
        capture == GetPiece(board, move.to)
    IN /\ piece.type = "KING" =>
            made.castling_rights_[piece.color] = CastlingRights(FALSE, FALSE)
       /\ (Present(capture) /\ capture.type = "KING") =>
            made.castling_rights_[capture.color] = CastlingRights(FALSE, FALSE)

\* C13: on every reachable board the king location of a colour is present
\* exactly when a king of that colour stands on the grid, and is then the
\* square of that king; it is the absent sentinel while the king is captured.
C13_KingLocationTracksKing ==
  \A c \in Colors :
    LET squares == {loc \in Rows \X Rows : GetPiece(board, loc) = Piece(c, "KING")}
    IN IF squares = {}
       THEN board.king_locations_[c] = kNoLocation
       ELSE board.king_locations_[c] \in squares

\* a king has been captured and is off the board
C13_Witness ==
  /\ last_op.op = "MakeMove"
  /\ last_op.capture.type = "KING"
  /\ board.king_locations_[last_op.capture.color] = kNoLocation

\* C14: on every reachable board the team-signed material sum equals the
\* per-player sums of RED and YELLOW less those of BLUE and GREEN, so the
\* assert of PieceEvaluation() holds.
C14_MaterialSumsReconcile == PieceEvaluationAssert(board)

\* a capture of a piece of BLUE or GREEN has been undone
C14_Witness ==
  /\ last_op.op = "UndoMove"
  /\ Present(last_op.capture)
  /\ GetTeam(last_op.capture.color) = "BLUE_GREEN"

\* C15: for every limit >= 1 GetPseudoLegalMoves2 writes at most `limit`
\* moves: result.count <= limit.
C15_CountWithinLimit ==
  \A limit \in 1..MaxLimit : Len(GetPseudoLegalMoves2(board, limit)) <= limit

-----------------------------------------------------------------------------
(* Properties of attack detection *)

\* Board::PawnAttacks(pawn_loc, pawn_color, other_loc): the capture rule
PawnAttacks(pawn_loc, pawn_color, other_loc) ==
  LET row_diff == other_loc[1] - pawn_loc[1]
      col_diff == other_loc[2] - pawn_loc[2]
  IN CASE pawn_color = RED -> row_diff = -1 /\ Abs(col_diff) = 1
       [] pawn_color = BLUE -> col_diff = 1 /\ Abs(row_diff) = 1
       [] pawn_color = YELLOW -> row_diff = 1 /\ Abs(col_diff) = 1
       [] OTHER -> col_diff = -1 /\ Abs(row_diff) = 1

Teams == {"RED_YELLOW", "BLUE_GREEN"}

LegalSquares == {loc \in Rows \X Rows : IsLegalLocation(loc[1], loc[2])}

\* the board with nothing on it but the pawns of `team`
PawnsOnly(b, team) ==
  [b EXCEPT !.location_to_piece_ =
     [loc \in Rows \X Rows |->
        IF b.location_to_piece_[loc].type = "PAWN"
           /\ GetTeam(b.location_to_piece_[loc].color) = team
        THEN b.location_to_piece_[loc] ELSE kNoPiece]]

\* C16: with only pawns to attack, IsAttackedByTeam(team, sq) is true exactly
\* when a pawn of `team` stands where its colour's capture step reaches sq
\* (a RED pawn at (r+1, c+-1), a YELLOW pawn at (r-1, c+-1), a BLUE pawn at
\* (r+-1, c-1), a GREEN pawn at (r+-1, c+1)); a pawn on the far side, moving
\* away from sq, does not count.
C16_PawnAttackDirection ==
  \A team \in Teams : \A sq \in LegalSquares :
    IsAttackedByTeam(PawnsOnly(board, team), team, sq)
      <=> \E loc \in LegalSquares :
            LET piece == GetPiece(board, loc)
            IN /\ piece.type = "PAWN"
               /\ GetTeam(piece.color) = team
               /\ PawnAttacks(loc, piece.color, sq)

\* C17: IsAttackedByTeam(team, sq) is true whenever a king of `team` stands
\* on one of the 8 squares next to sq.
C17_AdjacentKingAttacks ==
  \A team \in Teams : \A sq \in LegalSquares :
    (\E loc \in LegalSquares :
       /\ loc # sq
       /\ Abs(loc[1] - sq[1]) <= 1
       /\ Abs(loc[2] - sq[2]) <= 1
       /\ GetPiece(board, loc).type = "KING"
       /\ GetTeam(GetPiece(board, loc).color) = team)
    => IsAttackedByTeam(board, team, sq)

-----------------------------------------------------------------------------
(* Properties of move generation and of the game result *)

Sign(a) == IF a > 0 THEN 1 ELSE IF a < 0 THEN -1 ELSE 0

\* the squares strictly between two squares of one row, column or diagonal
SquaresBetween(from, to) ==
  LET dist == Max(Abs(to[1] - from[1]), Abs(to[2] - from[2]))
  IN { <<from[1] + k * Sign(to[1] - from[1]), from[2] + k * Sign(to[2] - from[2])>> :
         k \in 1..(dist - 1) }

\* C18: no move produced by GetPseudoLegalMoves2 ends on a square that holds
\* a piece of the mover's colour or of its teammate's colour; a sliding piece
\* passes over empty squares only, so its ray ends at the first occupied
\* square, which is a destination only when it holds an opposing piece.
C18_NoMoveOntoOwnTeam ==
  ~MoveGenAborts(board, kLimit) =>
    \A move \in SeqToSet(PseudoLegalMoves(board)) :
      LET target == GetPiece(board, move.to)
          mover == GetPiece(board, move.from)
      IN /\ mover.color = board.turn_
         /\ Present(target) => GetTeam(target.color) # GetTeam(board.turn_)
         /\ mover.type \in {"ROOK", "BISHOP", "QUEEN"} =>
              \A sq \in SquaresBetween(move.from, move.to) : Missing(GetPiece(board, sq))

\* GetPseudoLegalMoves2 has returned the moves of a position in which a red
\* rook or queen takes the enemy piece three squares along its row, while
\* the square beyond that piece is no destination
C18_Witness ==
  /\ last_op.op = "GetPseudoLegalMoves2"
  /\ board.turn_ = RED
  /\ GetPiece(board, <<7, 7>>).type \in {"ROOK", "QUEEN"}
  /\ Present(GetPiece(board, <<7, 10>>))
  /\ GetTeam(GetPiece(board, <<7, 10>>).color) = "BLUE_GREEN"
  /\ \E k \in 1..Len(last_op.result) :
       last_op.result[k].from = <<7, 7>> /\ last_op.result[k].to = <<7, 10>>
  /\ \A k \in 1..Len(last_op.result) : last_op.result[k].to # <<7, 11>>

\* the grid of b is the one CreateStandardSetup fills
IsStandardSetup(b) ==
  \A loc \in Rows \X Rows :
    GetPiece(b, loc) =
      IF HasAt(StandardPlaced, loc)
      THEN StandardPlaced[CHOOSE i \in 1..Len(StandardPlaced) :
                            StandardPlaced[i].loc = loc].piece
      ELSE kNoPiece

\* the moves of a list made by a piece of the given type on board b
MovesOfType(b, moves, type) ==
  SelectSeq(moves, LAMBDA m : GetPiece(b, m.from).type = type)

\* the pawns of a colour that have both their single and their double step
\* in the list, and no other move
PawnsWithBothSteps(b, moves, color) ==
  { loc \in LegalSquares :
      /\ GetPiece(b, loc) = Piece(color, "PAWN")
      /\ LET fwd == PawnForward(color)
             own == SelectSeq(moves, LAMBDA m : m.from = loc)
         IN /\ Len(own) = 2
            /\ own[1].to = <<loc[1] + fwd[1], loc[2] + fwd[2]>>
            /\ own[2].to = <<loc[1] + 2 * fwd[1], loc[2] + 2 * fwd[2]>> }

\* C21: on the board of CreateStandardSetup, with the turn set to any of the
\* four colours and no move made, GetPseudoLegalMoves2 returns exactly 20
\* moves: a single and a double step for each of the 8 pawns of that colour
\* and 4 knight moves.
C21_TwentyMovesAtStart ==
  (IsStandardSetup(board) /\ board.moves_ = <<>>) =>
    LET moves == PseudoLegalMoves(board)
    IN /\ Len(moves) = 20
       /\ Len(MovesOfType(board, moves, "PAWN")) = 16
       /\ Cardinality(PawnsWithBothSteps(board, moves, board.turn_)) = 8
       /\ Len(MovesOfType(board, moves, "KNIGHT")) = 4

\* GetPseudoLegalMoves2 has returned the 20 moves of GREEN on the standard board
C21_Witness ==
  /\ last_op.op = "GetPseudoLegalMoves2"
  /\ IsStandardSetup(board)
  /\ board.moves_ = <<>>
  /\ board.turn_ = GREEN
  /\ last_op.count = 20
  /\ Len(MovesOfType(board, last_op.result, "KNIGHT")) = 4

WinFor(team) == IF team = "RED_YELLOW" THEN "WIN_RY" ELSE "WIN_BG"

\* the pseudo-legal moves of the side to move after which its king is not attacked
SafeMoves(b) ==
  { move \in SeqToSet(PseudoLegalMoves(b)) : ~IsKingInCheck(MakeMove(b, move), b.turn_) }

\* the pseudo-legal moves of the side to move that take a king
KingTakingMoves(b) ==
  { move \in SeqToSet(PseudoLegalMoves(b)) :
      Present(move.standard_capture) /\ move.standard_capture.type = "KING" }

HasKing(b) == \E loc \in LegalSquares : GetPiece(b, loc) = Piece(b.turn_, "KING")

C20_KingCaptureInProgress ==
  (/\ ~MoveGenAborts(board, kLimit)
   /\ HasKing(board)
   /\ KingTakingMoves(board) # {})
  => GetGameResult(board).result = "IN_PROGRESS"

\* the promotion line of a colour
OnPromotionLine(color, to) ==
  CASE color = RED -> to[1] = 3
    [] color = BLUE -> to[2] = 10
    [] color = YELLOW -> to[1] = 10
    [] OTHER -> to[2] = 3

PromotionTypes == {"KNIGHT", "BISHOP", "ROOK", "QUEEN"}

\* C22: every destination on its promotion line that a pawn of the side to
\* move can reach is listed by GetPseudoLegalMoves2 as exactly four moves,
\* one per promotion type KNIGHT, BISHOP, ROOK and QUEEN, and MakeMove of
\* such a move places the promoted piece type on the destination.
C22_PromotionFourfold ==
  ~MoveGenAborts(board, kLimit) =>
    LET moves == PseudoLegalMoves(board)
    IN \A i \in 1..Len(moves) :
         (/\ GetPiece(board, moves[i].from).type = "PAWN"
          /\ OnPromotionLine(board.turn_, moves[i].to))
         => LET same == SelectSeq(moves, LAMBDA m : m.from = moves[i].from
                                                    /\ m.to = moves[i].to)
            IN /\ Len(same) = 4
               /\ {m.promotion_piece_type : m \in SeqToSet(same)} = PromotionTypes
               /\ GetPiece(MakeMove(board, moves[i]), moves[i].to).type
                    = moves[i].promotion_piece_type

\* the two squares a pawn standing on loc takes on
PawnCaptureSquares(color, loc) ==
  { <<loc[1] + PawnCapture1(color)[1], loc[2] + PawnCapture1(color)[2]>>,
    <<loc[1] + PawnCapture2(color)[1], loc[2] + PawnCapture2(color)[2]>> }

\* C23: after a double step of a pawn that lands beside a pawn of the next
\* player, an enemy, which takes on the square stepped over, the en-passant
\* capture onto that square is among that player's pseudo-legal moves.
C23_EnPassantOffered ==
  ~MoveGenAborts(board, kLimit) =>
    LET moves == PseudoLegalMoves(board)
    IN \A i \in 1..Len(moves) :
         (/\ GetPiece(board, moves[i].from).type = "PAWN"
          /\ LocPresent(moves[i].en_passant_location))
         => LET made == MakeMove(board, moves[i])
                ep == moves[i].en_passant_location
            IN \A loc \in Rows \X Rows :
                 (/\ GetPiece(made, loc) = Piece(made.turn_, "PAWN")
                  /\ GetTeam(made.turn_) # GetTeam(board.turn_)
                  /\ Abs(loc[1] - moves[i].to[1]) + Abs(loc[2] - moves[i].to[2]) = 1
                  /\ ep \in PawnCaptureSquares(made.turn_, loc))
                 => \E k \in 1..Len(PseudoLegalMoves(made)) :
                      /\ PseudoLegalMoves(made)[k].from = loc
                      /\ PseudoLegalMoves(made)[k].to = ep

\* squares_between and rook_location of a castling side, relative to the king
CastlingSquares(color, kingside) ==
  LET dir == CASE color = RED -> <<0, 1>>
               [] color = BLUE -> <<1, 0>>
               [] color = YELLOW -> <<0, -1>>
               [] OTHER -> <<-1, 0>>
      sign == IF kingside THEN 1 ELSE -1
      n == IF kingside THEN 2 ELSE 3
  IN [between |-> [k \in 1..n |-> <<sign * k * dir[1], sign * k * dir[2]>>],
      rook |-> <<sign * (n + 1) * dir[1], sign * (n + 1) * dir[2]>>]

RelativeTo(loc, delta) == <<loc[1] + delta[1], loc[2] + delta[2]>>

\* the stated conditions of castling for the side to move
CastlingAllowed(b, kingside) ==
  LET color == b.turn_
      from == b.king_locations_[color]
      sq == CastlingSquares(color, kingside)
      rights == b.castling_rights_[color]
      other_team == OtherTeam(GetTeam(color))
  IN /\ IF kingside THEN rights.kingside ELSE rights.queenside
     /\ IsLegalLocation(RelativeTo(from, sq.rook)[1], RelativeTo(from, sq.rook)[2])
     /\ GetPiece(b, RelativeTo(from, sq.rook)) = Piece(color, "ROOK")
     /\ \A k \in DOMAIN sq.between : Missing(GetPiece(b, RelativeTo(from, sq.between[k])))
     /\ ~IsAttackedByTeam(b, other_team, from)
     /\ \A k \in 1..2 : ~IsAttackedByTeam(b, other_team, RelativeTo(from, sq.between[k]))

\* a king move onto the castling destination, two squares from the king
CastlingListed(b, kingside) ==
  LET from == b.king_locations_[b.turn_]
      to == RelativeTo(from, CastlingSquares(b.turn_, kingside).between[2])
  IN \E m \in SeqToSet(PseudoLegalMoves(b)) : m.from = from /\ m.to = to

\* C24: GetPseudoLegalMoves2 lists the castling move of a side exactly when
\* the rights flag of that side is set, the squares between king and rook
\* are empty, the rook of the same colour stands on its original square,
\* and neither the king's square nor a square it passes is attacked by the
\* opposing team.
C24_CastlingListedWhenAllowed ==
  (~MoveGenAborts(board, kLimit) /\ LocPresent(board.king_locations_[board.turn_]))
    => \A kingside \in BOOLEAN :
         CastlingListed(board, kingside) <=> CastlingAllowed(board, kingside)

\* C36: a call of GetGameResult leaves the board as it found it: the grid,
\* the piece lists (as sets), the king locations, the turn, the hash key,
\* the material evaluations, the move history and the castling rights of
\* every colour are what they were before the call.
C36_GameResultKeepsBoard ==
  [][last_op'.op = "GetGameResult"
       => /\ SameBoard(board', board)
          /\ board'.moves_ = board.moves_
          /\ board'.castling_rights_ = board.castling_rights_]_vars

\* C37: GetGameResult depends on the position only: a board and the board
\* that making and taking back one of its pseudo-legal moves leaves, with the
\* same grid, turn, castling rights and move history but its piece lists in
\* another order, return the same result.
C37_ResultOfPositionOnly ==
  ~MoveGenAborts(board, kLimit) =>
    \A i \in 1..Len(PseudoLegalMoves(board)) :
      LET other == UndoMove(MakeMove(board, PseudoLegalMoves(board)[i]))
      IN (/\ other.location_to_piece_ = board.location_to_piece_
          /\ other.turn_ = board.turn_
          /\ other.castling_rights_ = board.castling_rights_
          /\ other.moves_ = board.moves_)
           => GetGameResult(other).result = GetGameResult(board).result

\* C38: in a game from the standard start, made of moves that
\* GetPseudoLegalMoves2 returned, move generation never writes a move from
\* or to a square off the board, so the 'Invalid move generated' abort is
\* never reached, also not with a pawn on the last square of its column.
C38_NoInvalidMoveGenerated ==
  board.moves_ # <<>> => ~MoveGenAborts(board, kLimit)

-----------------------------------------------------------------------------
(* Properties of the move picker *)

\* C5: when the enumeration has ended, every move of the list handed to
\* InitMovePicker2 has been returned at least once.
C5_EveryMoveReturned ==
  picker_done =>
    \A i \in 1..picker.count : picker.moves[i] \in SeqToSet(returned)

\* C6: no move is returned twice in one enumeration.
C6_NoMoveReturnedTwice ==
  \A i, j \in 1..Len(returned) : i # j => ~MoveEquals(returned[i], returned[j])

-----------------------------------------------------------------------------
(* Properties of the search *)

\* C4: a Search called from the move loop, the singular-extension search
\* included, is entered only on a board where the king of the player who
\* made the move is not attacked.
C4_ChildSearchOnlyWhenLegal ==
  (Len(stack) >= 2 /\ Top.pc = "entry")
    => ~IsKingInCheck(board, stack[Len(stack) - 1].player)

\* a child search is entered for a move that follows a skipped illegal one
C4_Witness ==
  /\ Len(stack) >= 2
  /\ Top.pc = "entry"
  /\ Top.call = "child"
  /\ stack[Len(stack) - 1].invalid_moves >= 1

\* C7: when MakeMoveSingleThread has returned, its result is the evaluation
\* (from the side of RED_YELLOW), best move and depth of the last iteration
\* that ran to completion, and it is absent exactly when none did.
C7_LastCompletedIteration ==
  driver.pc = "done" =>
    driver.result =
      IF completed = nullopt THEN nullopt
      ELSE Optional([eval |-> IF driver.maximizing_player THEN completed[1].score
                              ELSE -completed[1].score,
                     move |-> completed[1].move,
                     depth |-> completed[1].depth])

\* the search was interrupted in the iteration after a completed one
C7_Witness ==
  /\ driver.pc = "done"
  /\ driver.exit = "interrupted"
  /\ completed # nullopt
  /\ driver.next_depth = completed[1].depth + 1
  /\ driver.result # nullopt

\* C8: a Search that got an absent result from a Search it called, the
\* singular-extension search included, does not return a score.
C8_AbsentPropagates ==
  (ret.kind # "none" /\ ret.callee_absent) => ret.kind = "absent"

\* a Search returned absent after its singular-extension search came back
\* absent
C8_Witness ==
  /\ ret.kind = "absent"
  /\ ret.callee_absent
  /\ ret.singular_absent

\* C9: whenever a Search call returns, the board has the grid, the piece
\* lists (as sets), the king locations, the turn, the hash key and the
\* history length it had when the call was entered.
C9_BoardRestoredOnReturn ==
  [][Len(stack') < Len(stack)
       => Snapshot(board') = stack[Len(stack)].entry_board]_vars

\* a Search that skipped an illegal move and searched another has returned
C9_Witness ==
  /\ ret.kind = "value"
  /\ ret.path \in {"normal", "beta_cutoff"}
  /\ ret.invalid_moves >= 1

\* C29: the entry saved at the exit of a node has bound LOWER_BOUND exactly
\* when a move cut the node off, EXACT exactly when a move raised alpha and
\* none reached beta, UPPER_BOUND exactly when no move raised alpha, whatever
\* the type of the node.
C29_BoundByOutcome ==
  ret.bound # "none" =>
    ret.bound = IF ret.path = "beta_cutoff" THEN "LOWER_BOUND"
                ELSE IF ret.alpha > ret.window[1] THEN "EXACT"
                     ELSE "UPPER_BOUND"

\* C30: a node that found no legal move while the king of the side to move
\* is not attacked returns 0 clamped into its window.
C30_StalemateScoresZero ==
  (ret.path = "normal" /\ ~ret.has_legal_moves /\ ~ret.in_check)
    => ret.score = Min(ret.window[2], Max(ret.window[1], 0))

\* C31: while a root search of a MakeMoveSingleThread call is running, its
\* depth is one more than the depth of the last iteration that was recorded
\* (0 before the first): the first search has depth 1 and each following
\* iteration the previous depth plus one, whatever principal variation the
\* call started with.
C31_DeepeningFromOne ==
  stack # <<>> => stack[1].depth = driver.searched_depth + 1

\* C32: when thread 0's MakeMoveSingleThread has returned a result, the
\* principal variation MakeMove then keeps in pv_info_ is the one the last
\* completed iteration left: it begins with the best move the result names,
\* if it names one, and carries nothing that a later, interrupted root
\* search wrote.
C32_RetainedLineOfCompleted ==
  (driver.pc = "done" /\ driver.thread_id = 0 /\ driver.result # nullopt) =>
    /\ driver.pv_info = completed[1].pvinfo
    /\ driver.result[1].move # nullopt
         => PVGetBestMove(driver.pv_info) = driver.result[1].move

\* C35: the partitions of the move buffer handed out are those of the Search
\* invocations in progress that have taken theirs: every Search that has
\* returned, by whatever path, has put buffer_id_ back to what it was when
\* the call was entered.
C35_PartitionsReleased ==
  buffer_id_ = Cardinality({i \in 1..Len(stack) : stack[i].pc # "entry"})

-----------------------------------------------------------------------------
(* Properties of the multithreaded call *)

\* C10: the flag is set while MakeMove joins, that is once thread 0's
\* search is over; with the flag set no thread gets past the entry of a
\* Search; when MakeMove has returned every helper has been joined and no
\* thread is searching; and MakeMove does return.
C10_HelpersStopAndJoin ==
  /\ [](main_pc = "join" => (canceled_ /\ threads[0].pc = "done"))
  /\ [][canceled_ => \A i \in DOMAIN threads :
                        ~(InFrame(i, "entry") /\ threads'[i].frames # <<>>
                          /\ threads'[i].frames[Len(threads'[i].frames)] = "body"
                          /\ Len(threads'[i].frames) = Len(threads[i].frames))]_vars
  /\ [](main_pc = "returned" =>
         (joined = Helpers /\ \A i \in DOMAIN threads : threads[i].pc = "done"))
  /\ <>(main_pc = "returned")

\* MakeMove has returned from a call in which a helper found the flag set
\* at the entry of a Search
C10_Witness ==
  /\ main_pc = "returned"
  /\ \E i \in DOMAIN threads : i # 0 /\ threads[i].saw_canceled

-----------------------------------------------------------------------------
(* Properties of the transposition table *)

\* the entry a Save that replaces leaves in the slot
WholeEntry(key, arg) == SaveLastFields(SaveFirstFields(kZeroEntry, key, arg), arg)

WholeEntries ==
  {kZeroEntry} \cup {WholeEntry(key, arg) : key \in Keys, arg \in SaveArgs}

\* thread t returns from Save in this step
SaveReturns(t) ==
  /\ Probe(t).pc \in {"save_last", "save_kept"}
  /\ probes'[t].pc \notin {"save_last", "save_kept"}

\* C25: when Save(K1, ...) returns, a Get of any other key of the same
\* bucket gives no entry; and a Get(K) that returns an entry returns the
\* slot whose stored key is K, whatever Saves came before.
C25_GetOnlyOwnKey ==
  /\ [][\A t \in TableThreads :
          SaveReturns(t) =>
            \A k2 \in Keys \ {Probe(t).save_key} :
              SlotOf(k2) = SlotOf(Probe(t).save_key)
                => Get(hash_table_', k2) = nullptr]_vars
  /\ [][\A t \in TableThreads :
          (Probe(t).pc = "idle" /\ probes'[t].pc = "probe"
             /\ probes'[t].tte # nullptr)
          => hash_table_[probes'[t].tte[1]].key = probes'[t].key]_vars

\* a Get has returned nullptr for a key whose slot holds the entry saved
\* for another key
C25_Witness ==
  \E t \in TableThreads :
    LET entry == hash_table_[SlotOf(Probe(t).key)]
    IN /\ Probe(t).pc = "probe"
       /\ Probe(t).tte = nullptr
       /\ entry.key # Probe(t).key
       /\ entry \in WholeEntries \ {kZeroEntry}

\* the condition of the claim: shallower means a smaller depth
StatedReplaces(entry, key, arg) ==
  arg.bound = "EXACT" \/ entry.key # key \/ entry.depth < arg.depth

\* the condition with a stored depth equal to the new one included
NotDeeperReplaces(entry, key, arg) ==
  arg.bound = "EXACT" \/ entry.key # key \/ entry.depth <= arg.depth

\* C26 as stated: a Save replaces exactly when the bound is EXACT, the
\* stored key differs or the stored depth is smaller than the new one.
C26_ReplacesWhenShallower ==
  \A t \in TableThreads :
    LET entry == hash_table_[SlotOf(Probe(t).save_key)]
        stated == StatedReplaces(entry, Probe(t).save_key, Probe(t).save_arg[1])
    IN /\ Probe(t).pc = "save_first" => stated
       /\ Probe(t).pc = "save_kept" => ~stated

\* C26: Save(K, d, ..., bound) replaces the entry of the slot exactly when
\* the bound is EXACT, or the stored key differs from K, or the stored depth
\* is at most d; it then writes every field, and otherwise leaves the
\* table as it is.
C26_ReplacesUnlessDeeper ==
  /\ [](\A t \in TableThreads :
          LET entry == hash_table_[SlotOf(Probe(t).save_key)]
              replaces == NotDeeperReplaces(entry, Probe(t).save_key,
                                            Probe(t).save_arg[1])
          IN /\ Probe(t).pc = "save_first" => replaces
             /\ Probe(t).pc = "save_kept" => ~replaces)
  /\ [][\A t \in TableThreads :
          SaveReturns(t) =>
            IF Probe(t).pc = "save_kept" THEN hash_table_' = hash_table_
            ELSE hash_table_'[SlotOf(Probe(t).save_key)]
                   = WholeEntry(Probe(t).save_key, Probe(t).save_arg[1])]_vars

\* a Save with a bound that is not EXACT is about to replace the entry of
\* its own key and its own depth by other values
C26_Witness ==
  \E t \in TableThreads :
    LET entry == hash_table_[SlotOf(Probe(t).save_key)]
    IN /\ Probe(t).pc = "save_first"
       /\ entry.key = Probe(t).save_key
       /\ entry.depth = Probe(t).save_arg[1].depth
       /\ Probe(t).save_arg[1].bound # "EXACT"
       /\ entry \in WholeEntries \ {kZeroEntry}
       /\ entry # WholeEntry(Probe(t).save_key, Probe(t).save_arg[1])

\* C27: what a thread reads through the pointer Get gave it is an entry as
\* one Save wrote it (or the empty entry), never fields of two Saves.
C27_ReadsSeeOneSave ==
  \A t \in TableThreads :
    Probe(t).used # "none" => Probe(t).read \in WholeEntries

\* C28: whenever Search uses the entry it probed at node entry, the key
\* stored in the slot at that moment is the hash key of the node.
C28_KeyMatchesWhenUsed ==
  \A t \in TableThreads :
    Probe(t).used # "none" => Probe(t).read.key = Probe(t).key

-----------------------------------------------------------------------------
(* Properties of the aspiration loop *)

FullWindow(d) == d.alpha = -kMateValue /\ d.beta = kMateValue

\* C39: thread 0's aspiration loop makes at most 6 root searches for one
\* depth: while it searches, -kMateValue <= alpha < beta <= kMateValue and
\* at most five searches have failed; after the fifth failure the window is
\* the full one, and the search run with the full window ends the loop.
C39_AspirationLoopBounded ==
  /\ [](driver.pc = "search" =>
          /\ -kMateValue <= driver.alpha
          /\ driver.alpha < driver.beta
          /\ driver.beta <= kMateValue
          /\ driver.fail_cnt <= 5
          /\ driver.fail_cnt >= 5 => FullWindow(driver))
  /\ [][(driver.pc = "search" /\ FullWindow(driver)) => driver'.pc # "search"]_vars

\* the sixth search of a depth, run with the full window, gave the value of
\* the iteration
C39_Witness ==
  /\ driver.fail_cnt = 5
  /\ driver.pc = "loop"
  /\ driver.searched_depth >= 1
  /\ driver.exit = "none"

-----------------------------------------------------------------------------
(* Properties of a chain of Search calls *)

PiecesOn(b) == Cardinality({loc \in DOMAIN b.location_to_piece_ : Present(GetPiece(b, loc))})

\* C40: with no deadline and canceled never set, a chain of recursive
\* Search calls ends in an invocation that returns without a call: a child
\* gets a smaller depth than its caller, or, through r = -1, the caller's
\* depth for a move that takes a piece off the board.
C40_SearchReturns ==
  /\ <>AtPc("returned")
  /\ [][Len(stack') > Len(stack) =>
          LET caller == stack'[Len(stack)]
              child == stack'[Len(stack')]
          IN \/ child.depth < caller.depth
             \/ /\ child.depth = caller.depth
                /\ caller.r = -1
                /\ PiecesOn(board') < PiecesOn(board)]_vars

\* a chain that handed the depth 1 down three times through r = -1 has ended
C40_Witness ==
  /\ AtPc("returned")
  /\ Cardinality({i \in 1..(Len(stack) - 1) :
                    stack[i].r = -1 /\ stack[i + 1].depth = stack[i].depth}) >= 3

-----------------------------------------------------------------------------
(* Properties of the history tables *)

\* the thread is about to read or write a cell of history_heuristic
AtHistoryCell(t) == HistoryUse(t).pc \in {"history_add", "history_read"}

\* the thread is about to read or write a cell of the continuation history
AtContinuationCell(t) ==
  \/ HistoryUse(t).pc = "continuation_read"
  \/ HistoryUse(t).pc = "continuation_add" /\ HistoryUse(t).plies > 0

WritesCell(t) == HistoryUse(t).pc \in {"history_add", "continuation_add"}

HoldsMutexOfMove(t) ==
  heuristic_mutexes_[HeuristicMutexOf(HistoryUse(t).input.move)] = t

SameCell(t, u) ==
  \/ /\ AtHistoryCell(t) /\ AtHistoryCell(u)
     /\ HistoryUse(t).cell = HistoryUse(u).cell
  \/ /\ AtContinuationCell(t) /\ AtContinuationCell(u)
     /\ ContinuationCell(HistoryUse(t).input.piece_type, HistoryUse(t).input.move)
          = ContinuationCell(HistoryUse(u).input.piece_type, HistoryUse(u).input.move)

\* C33: a thread that is at a read or a write of a history cell or of a
\* continuation-history cell holds the mutex of the pool that the (from, to)
\* of its move selects, and no thread is at a cell that another thread is
\* writing.
C33_HistoryUnderPoolMutex ==
  /\ \A t \in HistoryThreads :
       (AtHistoryCell(t) \/ AtContinuationCell(t)) => HoldsMutexOfMove(t)
  /\ \A t, u \in HistoryThreads :
       (t # u /\ WritesCell(t)) => ~SameCell(t, u)

\* C34: the history cell the move picker has read for a move of piece type
\* pt from (fr, fc) to (tr, tc) is [pt][fr][fc][tr][tc], the cell UpdateStats
\* adds the bonus to for such a move.
C34_PickerReadsUpdatedCell ==
  \A t \in HistoryThreads :
    HistoryUse(t).pc \in {"continuation_read", "scored"}
      => HistoryUse(t).cell
           = UpdateStatsCell(HistoryUse(t).input.piece_type, HistoryUse(t).input.move)

====
